---- MODULE Spec2Model ----
(***************************************************************************)
(* AgentForge Lite: the AI provider gateway (sendChat and its three        *)
(* adapters), modelled from src/aiProviders.js, and the chat and settings  *)
(* handlers of the UI controller (AgentForgeApp) with the inlined copy of  *)
(* the gateway (AIProviders), modelled from src/unnamed/part_000.          *)
(*                                                                         *)
(* Text is a sequence of tokens.  A literal of the source is one token,    *)
(* cut wherever the code looks inside it (includes('CORS'), trim()).       *)
(* An optional JavaScript value is <<>> (undefined) or <<v>>.              *)
(***************************************************************************)
EXTENDS Integers, Sequences, FiniteSets, TLC

VARIABLES pc, args, sent, recv, inflight, inner, result,
          storage, settings, agent, chatHistory, typing, turn, page

\* The state of the gateway's calls.
gateway == <<pc, args, sent, recv, inflight, inner, result>>

\* The state of the UI controller, its page and the browser's storage.
ui == <<storage, settings, agent, chatHistory, typing, turn, page>>

vars == <<gateway, ui>>

(* ------------------------------ bounds -------------------------------- *)

\* Call slots: the invocations of sendChat that are told apart.
NumCalls == 2

\* Longest choice list / result array a response body carries.
MaxList == 2

Calls == 1..NumCalls

(* --------------------------- optional values -------------------------- *)

None == <<>>

Some(v) == <<v>>

Has(o) == Len(o) = 1

Get(o) == o[1]

(* ------------------------------- text --------------------------------- *)

\* The whitespace token.
WS == " "

\* String.prototype.includes, on tokens.
Includes(text, token) == \E i \in DOMAIN text : text[i] = token

RECURSIVE TrimStart(_)
TrimStart(t) == IF t # <<>> /\ Head(t) = WS THEN TrimStart(Tail(t)) ELSE t

RECURSIVE TrimEnd(_)
TrimEnd(t) ==
    IF t # <<>> /\ t[Len(t)] = WS THEN TrimEnd(SubSeq(t, 1, Len(t) - 1)) ELSE t

\* String.prototype.trim.
Trim(t) == TrimEnd(TrimStart(t))

\* JavaScript truthiness of an optional string: defined and not ''.
Truthy(o) == Has(o) /\ Get(o) # <<>>

\* new Error(message), new TypeError(message), ...
Err(name, message) == [name |-> name, message |-> message]

(* ------------------------------- URLs --------------------------------- *)

\* 'https://openrouter.ai/api/v1/chat/completions'
OpenRouterUrl ==
    <<"https", ":", "/", "/", "openrouter.ai", "/", "api", "/", "v1", "/",
      "chat", "/", "completions">>

\* `https://api-inference.huggingface.co/models/${model}`
HuggingFaceUrl(model) ==
    <<"https", ":", "/", "/", "api-inference.huggingface.co", "/", "models",
      "/">> \o model

\* 'http://localhost:11434/api/chat'
DefaultLocalEndpoint ==
    <<"http", ":", "/", "/", "localhost", ":", "11434", "/", "api", "/",
      "chat">>

\* encodeURIComponent on one token: the reserved characters are escaped.
EncodeToken(t) ==
    CASE t = ":" -> "%3A"
      [] t = "/" -> "%2F"
      [] t = "?" -> "%3F"
      [] t = "=" -> "%3D"
      [] OTHER -> t

\* encodeURIComponent.
EncodeURIComponent(url) == [i \in DOMAIN url |-> EncodeToken(url[i])]

\* 'https://api.allorigins.win/raw?url='
ProxyPrefix ==
    <<"https", ":", "/", "/", "api.allorigins.win", "/", "raw", "?", "url",
      "=">>

\* withCors(url).
withCors(url) == ProxyPrefix \o EncodeURIComponent(url)

(* ------------------------ JSON response bodies ------------------------ *)

SeqsUpTo(S, n) == UNION {[1..k -> S] : k \in 0..n}

\* Strings a remote service may put in a content field.
Texts == {<<"hi">>, <<WS, "hi", WS>>, <<WS>>, <<>>}

\* {content: ...} or {}
MessageVal(content) == [content |-> content]

\* An element of data.choices: null, or an object with an optional message.
NullChoice == [null |-> TRUE, message |-> None]

ChoiceObj(message) == [null |-> FALSE, message |-> message]

\* The content strings tried inside choice lists and result arrays.
ListTexts == {<<"hi">>, <<WS, "hi", WS>>}

ChoiceVals ==
    {NullChoice, ChoiceObj(None), ChoiceObj(Some(MessageVal(None)))}
        \cup {ChoiceObj(Some(MessageVal(Some(t)))) : t \in ListTexts}

\* An element of a result array: {generated_text: ...} or {}
ItemVal(text) == [generated_text |-> text]

ItemVals ==
    {ItemVal(None), ItemVal(Some(<<WS>>))}
        \cup {ItemVal(Some(t)) : t \in ListTexts}

\* The value of an error field: a string, or an object with an optional message.
ErrorString == [isString |-> TRUE, message |-> None]

ErrorObj(message) == [isString |-> FALSE, message |-> message]

\* What response.json() yields: a rejection (unparseable), null, an array or
\* an object with the fields the adapters read.
Body(kind, choices, text, message, error, items) ==
    [kind |-> kind, choices |-> choices, generated_text |-> text,
     message |-> message, error |-> error, items |-> items]

Unparseable == Body("unparseable", None, None, None, None, <<>>)

NullBody == Body("null", None, None, None, None, <<>>)

ArrayBody(items) == Body("array", None, None, None, None, items)

ObjectBody(choices, text, message, error) ==
    Body("object", choices, text, message, error, <<>>)

EmptyObject == ObjectBody(None, None, None, None)

RemoteMessages == {<<"rate limited">>, <<"CORS", "denied">>, <<>>}

Bodies ==
    {Unparseable, NullBody, EmptyObject}
        \cup {ObjectBody(Some(cs), None, None, None) :
                cs \in SeqsUpTo(ChoiceVals, MaxList)}
        \cup {ObjectBody(None, Some(t), None, None) : t \in Texts}
        \cup {ObjectBody(None, None, Some(MessageVal(None)), None)}
        \cup {ObjectBody(None, None, Some(MessageVal(Some(t))), None) :
                t \in Texts}
        \cup {ObjectBody(None, None, None, Some(ErrorString)),
              ObjectBody(None, None, None, Some(ErrorObj(None)))}
        \cup {ObjectBody(None, None, None, Some(ErrorObj(Some(m)))) :
                m \in RemoteMessages}
        \cup {ArrayBody(items) : items \in SeqsUpTo(ItemVals, MaxList)}

(* --------------------------- network outcomes ------------------------- *)

\* HTTP statuses a fetch can resolve with.
Statuses == {200, 299, 300, 500}

\* What fetch rejects with: a TypeError, its message set by the browser.
TransportErrors ==
    {Err("TypeError", <<"Failed to fetch">>),
     Err("TypeError", <<"Load failed">>),
     Err("TypeError", <<"Blocked by", "CORS", "policy">>)}

NoError == Err("", <<>>)

Failure(error) ==
    [kind |-> "fail", error |-> error, status |-> 0, body |-> NullBody]

Response(status, body) ==
    [kind |-> "resp", error |-> NoError, status |-> status, body |-> body]

Outcomes ==
    {Failure(e) : e \in TransportErrors}
        \cup {Response(s, b) : s \in Statuses, b \in Bodies}

\* response.ok
Ok(status) == status >= 200 /\ status <= 299

(* --------------------------- call arguments --------------------------- *)

Providers == {"openrouter", "huggingface", "local", "azure"}

Models == {<<"llama3">>, <<"mistralai", "/", "Mixtral-8x7B">>}

Msg(role, content) == [role |-> role, content |-> content]

MessageLists ==
    {<<Msg("system", <<"A">>), Msg("user", <<"B">>)>>,
     <<Msg("user", <<"B">>), Msg("assistant", <<"C">>), Msg("tool", <<"D">>)>>}

\* apiKey as passed: omitted, '' or a key.
ApiKeys == {None, Some(<<>>), Some(<<"sk-1">>)}

\* localEndpoint as passed: omitted, '' or a URL.
Endpoints ==
    {None, Some(<<>>),
     Some(<<"http", ":", "/", "/", "10.0.0.5", ":", "8080", "/", "chat">>)}

\* The default parameter values apiKey = '' and localEndpoint = ''.
DefaultParam(o) == IF Has(o) THEN Get(o) ELSE <<>>

(* ------------------------------ requests ------------------------------ *)

Request(url, headers, body) ==
    [url |-> url, method |-> "POST", headers |-> headers, body |-> body]

Headers(authorization, referer, title) ==
    [ContentType |-> <<"application/json">>, Authorization |-> authorization,
     Referer |-> referer, Title |-> title]

\* `Bearer ${apiKey}`
Bearer(apiKey) == <<"Bearer ">> \o apiKey

OpenRouterPayload(model, messages) ==
    [model |-> model, messages |-> messages, temperature |-> "0.7",
     max_tokens |-> 500]

OpenRouterHeaders(apiKey) ==
    Headers(Some(Bearer(apiKey)), Some(<<"window.location.origin">>),
            Some(<<"AgentForge Lite">>))

\* Faulty variant of PromptLine: a role that is none of the three is labelled
\* as the user's.
PromptLineUserDefault(msg) ==
    CASE msg.role = "system" -> <<"System: ">> \o msg.content
      [] msg.role = "assistant" -> <<"Assistant: ">> \o msg.content
      [] OTHER -> <<"User: ">> \o msg.content

\* One message as a prompt line.
PromptLine(msg) ==
    CASE msg.role = "system" -> <<"System: ">> \o msg.content
      [] msg.role = "user" -> <<"User: ">> \o msg.content
      [] msg.role = "assistant" -> <<"Assistant: ">> \o msg.content
      [] OTHER -> msg.content

\* Array.prototype.join('\n') of the prompt lines.
RECURSIVE JoinLines(_)
JoinLines(messages) ==
    IF messages = <<>> THEN <<>>
    ELSE IF Len(messages) = 1 THEN PromptLine(messages[1])
    ELSE PromptLine(messages[1]) \o <<"\n">> \o JoinLines(Tail(messages))

Prompt(messages) == JoinLines(messages) \o <<"\n", "Assistant:">>

HuggingFacePayload(messages) ==
    [inputs |-> Prompt(messages),
     parameters |-> [max_new_tokens |-> 500, temperature |-> "0.7",
                     return_full_text |-> FALSE]]

\* Faulty variant of HuggingFaceHeaders: the bearer header is set whether or
\* not there is a key.
HuggingFaceHeadersAlways(apiKey) == Headers(Some(Bearer(apiKey)), None, None)

HuggingFaceHeaders(apiKey) ==
    Headers(IF apiKey # <<>> THEN Some(Bearer(apiKey)) ELSE None, None, None)

\* Faulty variant of LocalEndpoint: the endpoint passed is not looked at.
LocalEndpointAlwaysDefault(endpoint) == DefaultLocalEndpoint

\* if (!endpoint) endpoint = 'http://localhost:11434/api/chat'
LocalEndpoint(endpoint) ==
    IF endpoint = <<>> THEN DefaultLocalEndpoint ELSE endpoint

LocalPayload(model, messages) ==
    [model |-> model, messages |-> messages, stream |-> FALSE,
     options |-> [temperature |-> "0.7", num_predict |-> 500]]

LocalHeaders == Headers(None, None, None)


\* Faulty variant of Dispatch: the default branch falls through to the local
\* adapter.
DispatchDefaultLocal(provider) ==
    CASE provider = "openrouter" -> "openrouter"
      [] provider = "huggingface" -> "huggingface"
      [] OTHER -> "local"

\* The adapter the switch of sendChat selects; "none" is the default branch.
Dispatch(provider) ==
    CASE provider = "openrouter" -> "openrouter"
      [] provider = "huggingface" -> "huggingface"
      [] provider = "local" -> "local"
      [] OTHER -> "none"


\* Faulty variant of KeyRequired: the key check is missing.
KeyNeverRequired(adapter, apiKey) == FALSE

\* if (!apiKey) throw ... : the only adapter that demands a key.
KeyRequired(adapter, apiKey) == adapter = "openrouter" /\ apiKey = <<>>

\* Faulty variant of PrimaryRequest: the local adapter is handed the apiKey
\* and sends it as a bearer token when there is one.
PrimaryRequestLocalAuth(a) ==
    CASE Dispatch(a.provider) = "openrouter" ->
            Request(OpenRouterUrl, OpenRouterHeaders(a.apiKey),
                    OpenRouterPayload(a.model, a.messages))
      [] Dispatch(a.provider) = "huggingface" ->
            Request(HuggingFaceUrl(a.model), HuggingFaceHeaders(a.apiKey),
                    HuggingFacePayload(a.messages))
      [] OTHER ->
            Request(LocalEndpoint(a.localEndpoint),
                    HuggingFaceHeaders(a.apiKey),
                    LocalPayload(a.model, a.messages))

\* The request an adapter's first fetch sends.
PrimaryRequest(a) ==
    CASE Dispatch(a.provider) = "openrouter" ->
            Request(OpenRouterUrl, OpenRouterHeaders(a.apiKey),
                    OpenRouterPayload(a.model, a.messages))
      [] Dispatch(a.provider) = "huggingface" ->
            Request(HuggingFaceUrl(a.model), HuggingFaceHeaders(a.apiKey),
                    HuggingFacePayload(a.messages))
      [] OTHER ->
            Request(LocalEndpoint(a.localEndpoint), LocalHeaders,
                    LocalPayload(a.model, a.messages))

\* Faulty variant of FallbackRequest: the proxy request is sent without the
\* Authorization header.
FallbackRequestNoAuth(primary) ==
    Request(withCors(primary.url),
            [primary.headers EXCEPT !.Authorization = None], primary.body)

\* The request of the catch block's fetch(withCors(url), ...): same method,
\* headers and body, sent to the proxy.
FallbackRequest(primary) ==
    Request(withCors(primary.url), primary.headers, primary.body)

(* ------------------------ adapter control flow ------------------------ *)

\* How a block of code ends: it returns a value, throws an error, or (an
\* adapter's catch block) goes on to the proxy fetch.
Return(value) == [tag |-> "return", value |-> value, error |-> NoError]

Throw(error) == [tag |-> "throw", value |-> None, error |-> error]

Fetch == [tag |-> "fetch", value |-> None, error |-> NoError]

\* What response.json() rejects with on a body that is not JSON.
JsonSyntaxError == Err("SyntaxError", <<"Unexpected token < in JSON">>)

\* Reading a property of null or undefined.
PropertyCrash(what) ==
    Err("TypeError", <<"Cannot read properties of", what>>)

\* await response.json().catch(() => ({ error: 'Unknown error' }))
JsonOrUnknown(body) ==
    IF body.kind = "unparseable"
    THEN ObjectBody(None, None, None, Some(ErrorString))
    ELSE body

\* error.error?.message, for a non-null error body
EnvelopeMessage(body) ==
    IF Has(body.error) THEN Get(body.error).message ELSE None

\* The throw of an adapter's if (!response.ok) block; fallback is the text
\* after the ||.
RemoteError(body, fallback) ==
    LET error == JsonOrUnknown(body) IN
    IF error.kind = "null" THEN Throw(PropertyCrash("null (reading 'error')"))
    ELSE IF Truthy(EnvelopeMessage(error))
         THEN Throw(Err("Error", Get(EnvelopeMessage(error))))
         ELSE Throw(Err("Error", fallback))


\* Faulty variant of IsCorsError: every TypeError counts as cross-origin.
IsCorsErrorAnyMessage(error) == error.name = "TypeError"

\* Faulty variant of IsCorsError: the error's name is not looked at.
IsCorsErrorAnyName(error) == Includes(error.message, "CORS")

\* error.name === 'TypeError' && error.message.includes('CORS')
IsCorsError(error) ==
    error.name = "TypeError" /\ Includes(error.message, "CORS")

\* error.name === 'TypeError' && (error.message.includes('Failed to fetch')
\*     || error.message.includes('CORS'))
IsLocalConnectError(error) ==
    /\ error.name = "TypeError"
    /\ \/ Includes(error.message, "Failed to fetch")
       \/ Includes(error.message, "CORS")


\* Faulty variant of FirstChoiceContent: the content is trimmed, as the other
\* two adapters do.
FirstChoiceContentTrimmed(body) ==
    IF \/ ~Has(body.choices)
       \/ Get(body.choices) = <<>>
       \/ Get(body.choices)[1].null
       \/ ~Has(Get(body.choices)[1].message)
    THEN Throw(PropertyCrash("undefined"))
    ELSE LET content == Get(Get(body.choices)[1].message).content IN
         Return(IF Has(content) THEN Some(Trim(Get(content))) ELSE None)

\* data.choices[0].message.content, for a parsed body that is not null.
FirstChoiceContent(body) ==
    IF ~Has(body.choices)
    THEN Throw(PropertyCrash("undefined (reading '0')"))
    ELSE IF Get(body.choices) = <<>>
    THEN Throw(PropertyCrash("undefined (reading 'message')"))
    ELSE IF Get(body.choices)[1].null
    THEN Throw(PropertyCrash("null (reading 'message')"))
    ELSE IF ~Has(Get(body.choices)[1].message)
    THEN Throw(PropertyCrash("undefined (reading 'content')"))
    ELSE Return(Get(Get(body.choices)[1].message).content)


\* Faulty variant of NoFirstChoice: only !data.choices is tested.
NoFirstChoiceAbsentOnly(body) == ~Has(body.choices)

\* !data.choices || !data.choices[0], for a parsed body that is not null.
NoFirstChoice(body) ==
    \/ ~Has(body.choices)
    \/ Get(body.choices) = <<>>
    \/ Get(body.choices)[1].null

\* The try block of sendOpenRouterChat, from the settled fetch on.
OpenRouterTry(net) ==
    IF net.kind = "fail" THEN Throw(net.error)
    ELSE IF ~Ok(net.status)
    THEN RemoteError(net.body, <<"HTTP", ToString(net.status)>>)
    ELSE IF net.body.kind = "unparseable" THEN Throw(JsonSyntaxError)
    ELSE IF net.body.kind = "null"
    THEN Throw(PropertyCrash("null (reading 'choices')"))
    ELSE IF NoFirstChoice(net.body)
    THEN Throw(Err("Error", <<"Invalid response format from OpenRouter">>))
    ELSE FirstChoiceContent(net.body)

\* The catch block of sendOpenRouterChat, up to the proxy fetch.
OpenRouterPrimary(net) ==
    LET tried == OpenRouterTry(net) IN
    IF tried.tag = "throw" /\ IsCorsError(tried.error) THEN Fetch ELSE tried

OpenRouterCorsError ==
    Err("Error", <<"CORS", "error - try enabling browser", "CORS",
                   "extension or use different provider">>)

\* The inner try/catch of sendOpenRouterChat, from the settled proxy fetch on.
OpenRouterFallback(net) ==
    LET tried ==
            IF net.kind = "fail" THEN Throw(net.error)
            ELSE IF ~Ok(net.status)
            THEN Throw(Err("Error", <<"HTTP", ToString(net.status)>>))
            ELSE IF net.body.kind = "unparseable" THEN Throw(JsonSyntaxError)
            ELSE IF net.body.kind = "null"
            THEN Throw(PropertyCrash("null (reading 'choices')"))
            ELSE FirstChoiceContent(net.body)
    IN  IF tried.tag = "throw" THEN Throw(OpenRouterCorsError) ELSE tried

\* data[0]?.generated_text of a parsed, non-null body.
FirstGeneratedText(body) ==
    IF body.kind = "array" /\ body.items # <<>>
    THEN body.items[1].generated_text
    ELSE None


\* Faulty variant of TrimOpt: the text is passed on untrimmed.
TrimOptUntrimmed(text) == text

\* text?.trim()
TrimOpt(text) == IF Has(text) THEN Some(Trim(Get(text))) ELSE None

HuggingFaceHint == "- Model may be loading, try again in a moment"

\* The try block of sendHuggingFaceChat, from the settled fetch on.
HuggingFaceTry(net) ==
    IF net.kind = "fail" THEN Throw(net.error)
    ELSE IF ~Ok(net.status)
    THEN RemoteError(net.body,
                     <<"HTTP", ToString(net.status), HuggingFaceHint>>)
    ELSE IF net.body.kind = "unparseable" THEN Throw(JsonSyntaxError)
    ELSE IF net.body.kind = "null"
    THEN Throw(PropertyCrash("null (reading 'generated_text')"))
    ELSE IF net.body.kind = "array" /\ Truthy(FirstGeneratedText(net.body))
    THEN Return(TrimOpt(FirstGeneratedText(net.body)))
    ELSE IF Truthy(net.body.generated_text)
    THEN Return(TrimOpt(net.body.generated_text))
    ELSE Throw(Err("Error", <<"Invalid response format from HuggingFace">>))

\* The catch block of sendHuggingFaceChat, up to the proxy fetch.
HuggingFacePrimary(net) ==
    LET tried == HuggingFaceTry(net) IN
    IF tried.tag = "throw" /\ IsCorsError(tried.error) THEN Fetch ELSE tried

HuggingFaceCorsError ==
    Err("Error", <<"CORS", "error - HuggingFace may require API key",
                   "or try different model">>)

NoResponseGenerated == <<"No response generated">>

\* Faulty variant of Salvage: the object's own generated_text is not looked at.
SalvageFirstOnly(body) ==
    IF Truthy(TrimOpt(FirstGeneratedText(body)))
    THEN TrimOpt(FirstGeneratedText(body))
    ELSE Some(NoResponseGenerated)

\* corsData[0]?.generated_text?.trim() || corsData.generated_text?.trim()
\*     || 'No response generated'
Salvage(body) ==
    IF Truthy(TrimOpt(FirstGeneratedText(body)))
    THEN TrimOpt(FirstGeneratedText(body))
    ELSE IF Truthy(TrimOpt(body.generated_text))
    THEN TrimOpt(body.generated_text)
    ELSE Some(NoResponseGenerated)

\* The inner try/catch of sendHuggingFaceChat, from the settled proxy fetch on.
HuggingFaceFallback(net) ==
    IF \/ net.kind = "fail"
       \/ ~Ok(net.status)
       \/ net.body.kind \in {"unparseable", "null"}
    THEN Throw(HuggingFaceCorsError)
    ELSE Return(Salvage(net.body))

LocalConnectError ==
    Err("Error",
        <<"Cannot connect to Ollama server. Make sure Ollama is running on the specified endpoint and",
          "CORS", "is enabled.">>)

\* `Ollama server error: HTTP ${response.status}. Make sure Ollama is running
\* and model '${model}' is installed.`
LocalServerError(status, model) ==
    Err("Error",
        <<"Ollama server error: HTTP", ToString(status),
          ". Make sure Ollama is running and model '">> \o model
            \o <<"' is installed.">>)

\* The try block of sendLocalChat, from the settled fetch on.
LocalTry(net, model) ==
    IF net.kind = "fail" THEN Throw(net.error)
    ELSE IF ~Ok(net.status) THEN Throw(LocalServerError(net.status, model))
    ELSE IF net.body.kind = "unparseable" THEN Throw(JsonSyntaxError)
    ELSE IF net.body.kind = "null"
    THEN Throw(PropertyCrash("null (reading 'message')"))
    ELSE IF Has(net.body.message) /\ Truthy(Get(net.body.message).content)
    THEN Return(TrimOpt(Get(net.body.message).content))
    ELSE Throw(Err("Error", <<"Invalid response format from Ollama">>))

\* sendLocalChat's catch block: no proxy fetch.
LocalPrimary(net, model) ==
    LET tried == LocalTry(net, model) IN
    IF tried.tag = "throw" /\ IsLocalConnectError(tried.error)
    THEN Throw(LocalConnectError)
    ELSE tried

(* ------------------------------ sendChat ------------------------------ *)

\* `Unsupported provider: ${provider}`
UnsupportedProvider(provider) ==
    Err("Error", <<"Unsupported provider: ", provider>>)

MissingKey == Err("Error", <<"OpenRouter API key is required">>)

\* What an adapter does before its first await: it throws, or it fetches.
AdapterEntry(a) ==
    IF Dispatch(a.provider) = "none"
    THEN Throw(UnsupportedProvider(a.provider))
    ELSE IF KeyRequired(Dispatch(a.provider), a.apiKey) THEN Throw(MissingKey)
    ELSE Fetch


\* Faulty variant of EntryRequests: the proxy request is fired together with
\* the primary one.
EntryRequestsWithFallback(a) ==
    IF AdapterEntry(a).tag = "throw" THEN <<>>
    ELSE <<PrimaryRequest(a), FallbackRequest(PrimaryRequest(a))>>

\* The requests issued before the first await.
EntryRequests(a) ==
    IF AdapterEntry(a).tag = "throw" THEN <<>> ELSE <<PrimaryRequest(a)>>

\* An adapter's code between the primary fetch settling and its next await
\* or its end.
AfterPrimary(a, net) ==
    CASE Dispatch(a.provider) = "openrouter" -> OpenRouterPrimary(net)
      [] Dispatch(a.provider) = "huggingface" -> HuggingFacePrimary(net)
      [] OTHER -> LocalPrimary(net, a.model)

\* An adapter's code after the proxy fetch settles.
AfterFallback(a, net) ==
    IF Dispatch(a.provider) = "openrouter"
    THEN OpenRouterFallback(net)
    ELSE HuggingFaceFallback(net)


\* Faulty variant of Wrap: the caught error is rethrown as it is.
WrapRethrow(error) == error

\* catch (error) { throw new Error(`AI request failed: ${error.message}`) }
Wrap(error) == Err("Error", <<"AI request failed: ">> \o error.message)

\* How sendChat settles once the adapter (or the default branch) has.
Settle(ended) ==
    IF ended.tag = "throw" THEN Throw(Wrap(ended.error)) ELSE ended

(* ------------------------------- state -------------------------------- *)

\* A call that has not settled.
Pending == [tag |-> "pending", value |-> None, error |-> NoError]

\* sendChat's parameters, the defaults applied.
Params(a) ==
    [provider |-> a.provider, model |-> a.model, messages |-> a.messages,
     apiKey |-> DefaultParam(a.apiKey),
     localEndpoint |-> DefaultParam(a.localEndpoint)]

NoCall ==
    [provider |-> "", model |-> <<>>, messages |-> <<>>, apiKey |-> None,
     localEndpoint |-> None]

TypeOK ==
    /\ pc \in [Calls -> {"idle", "primary", "fallback", "done"}]
    /\ inflight \subseteq Calls \X (1..2)
    /\ \A c \in Calls :
          /\ Len(sent[c]) <= 2
          /\ Len(recv[c]) <= Len(sent[c])
          /\ inner[c].tag \in {"pending", "return", "throw"}
          /\ result[c].tag \in {"pending", "return", "throw"}

\* getDefaultModels().openrouter
DefaultModel == <<"deepseek", "/", "deepseek-r1:free">>

\* The defaults of loadSettings.
DefaultSettings ==
    [provider |-> Some(<<"openrouter">>), model |-> Some(DefaultModel),
     apiKey |-> Some(<<>>), localEndpoint |-> Some(DefaultLocalEndpoint)]

\* The elements of the page the chat handlers look up.
PageElements == {"message-input", "chat-messages", "typing-indicator"}

\* A sendMessage call that is not running.
NoTurn == [pc |-> "idle", message |-> <<>>]

\* new AgentForgeApp() on the app's page with nothing stored: no agent, an
\* empty chat, the default settings, the typing indicator hidden.
UiInit ==
    /\ storage = None
    /\ settings = DefaultSettings
    /\ agent = None
    /\ chatHistory = <<>>
    /\ typing = FALSE
    /\ turn = [c \in Calls |-> NoTurn]
    /\ page = PageElements

Init ==
    /\ UiInit
    /\ pc = [c \in Calls |-> "idle"]
    /\ args = [c \in Calls |-> NoCall]
    /\ sent = [c \in Calls |-> <<>>]
    /\ recv = [c \in Calls |-> <<>>]
    /\ inflight = {}
    /\ inner = [c \in Calls |-> Pending]
    /\ result = [c \in Calls |-> Pending]

\* sendChat(provider, model, messages, apiKey, localEndpoint), up to its first
\* await or, when it throws before any fetch, to its end; the arguments are
\* drawn from the given sets.
Begin(c, providers, models, lists, keys, endpoints) ==
    /\ pc[c] = "idle"
    /\ \E provider \in providers, model \in models, messages \in lists,
          apiKey \in keys, localEndpoint \in endpoints :
          LET raw == [provider |-> provider, model |-> model,
                      messages |-> messages, apiKey |-> apiKey,
                      localEndpoint |-> localEndpoint]
              entry == AdapterEntry(Params(raw))
              reqs == EntryRequests(Params(raw))
          IN  /\ args' = [args EXCEPT ![c] = raw]
              /\ sent' = [sent EXCEPT ![c] = reqs]
              /\ inflight' = inflight \cup {<<c, i>> : i \in DOMAIN reqs}
              /\ IF entry.tag = "throw"
                 THEN /\ inner' = [inner EXCEPT ![c] = entry]
                      /\ result' = [result EXCEPT ![c] = Settle(entry)]
                      /\ pc' = [pc EXCEPT ![c] = "done"]
                 ELSE /\ pc' = [pc EXCEPT ![c] = "primary"]
                      /\ UNCHANGED <<inner, result>>
    /\ UNCHANGED recv

\* Faulty variant of PrimarySettles: the request body is kept in one place for
\* all calls, so the proxy request repeats the primary request of whichever
\* call wrote it last.
PrimarySettlesShared(c, outcomes) ==
    /\ pc[c] = "primary"
    /\ \E net \in outcomes :
          /\ recv' = [recv EXCEPT ![c] = Append(@, net)]
          /\ LET ended == AfterPrimary(Params(args[c]), net) IN
             IF ended.tag = "fetch"
             THEN /\ \E d \in Calls :
                        /\ sent[d] # <<>>
                        /\ sent' =
                              [sent EXCEPT
                                 ![c] = Append(@, FallbackRequest(sent[d][1]))]
                  /\ inflight' =
                        (inflight \ {<<c, 1>>}) \cup {<<c, Len(sent[c]) + 1>>}
                  /\ pc' = [pc EXCEPT ![c] = "fallback"]
                  /\ UNCHANGED <<inner, result>>
             ELSE /\ inflight' = inflight \ {<<c, 1>>}
                  /\ inner' = [inner EXCEPT ![c] = ended]
                  /\ result' = [result EXCEPT ![c] = Settle(ended)]
                  /\ pc' = [pc EXCEPT ![c] = "done"]
                  /\ UNCHANGED sent
    /\ UNCHANGED args

\* Faulty variant of PrimarySettles: the call gives up on its request and
\* fails without the fetch having settled.
PrimarySettlesTimeout(c, outcomes) ==
    /\ pc[c] = "primary"
    /\ LET ended == Throw(Err("Error", <<"Request timed out">>)) IN
          /\ inner' = [inner EXCEPT ![c] = ended]
          /\ result' = [result EXCEPT ![c] = Settle(ended)]
    /\ inflight' = inflight \ {<<c, 1>>}
    /\ pc' = [pc EXCEPT ![c] = "done"]
    /\ UNCHANGED <<args, sent, recv>>

\* A call of sendChat by a caller that awaits each call before making the
\* next.
Start(c) ==
    /\ \A d \in Calls : pc[d] = "idle"
    /\ Begin(c, Providers, Models, MessageLists, ApiKeys, Endpoints)

\* The primary fetch settles, with an outcome net of the given set; the
\* adapter runs to its end or to the proxy fetch.
PrimarySettles(c, outcomes) ==
    /\ pc[c] = "primary"
    /\ \E net \in outcomes :
          /\ recv' = [recv EXCEPT ![c] = Append(@, net)]
          /\ LET ended == AfterPrimary(Params(args[c]), net) IN
             IF ended.tag = "fetch"
             THEN /\ sent' = [sent EXCEPT
                                ![c] = Append(@, FallbackRequest(@[1]))]
                  /\ inflight' =
                        (inflight \ {<<c, 1>>}) \cup {<<c, Len(sent[c]) + 1>>}
                  /\ pc' = [pc EXCEPT ![c] = "fallback"]
                  /\ UNCHANGED <<inner, result>>
             ELSE /\ inflight' = inflight \ {<<c, 1>>}
                  /\ inner' = [inner EXCEPT ![c] = ended]
                  /\ result' = [result EXCEPT ![c] = Settle(ended)]
                  /\ pc' = [pc EXCEPT ![c] = "done"]
                  /\ UNCHANGED sent
    /\ UNCHANGED args

PrimaryDone(c) == PrimarySettles(c, Outcomes)

\* Faulty variant of FallbackSettles: the defaults for apiKey and
\* localEndpoint are written through to the values the caller passed.
FallbackSettlesDefaulting(c, outcomes) ==
    /\ pc[c] = "fallback"
    /\ \E net \in outcomes :
          /\ recv' = [recv EXCEPT ![c] = Append(@, net)]
          /\ LET ended == AfterFallback(Params(args[c]), net) IN
             /\ inner' = [inner EXCEPT ![c] = ended]
             /\ result' = [result EXCEPT ![c] = Settle(ended)]
    /\ inflight' = inflight \ {<<c, Len(sent[c])>>}
    /\ pc' = [pc EXCEPT ![c] = "done"]
    /\ args' = [args EXCEPT ![c].apiKey = Some(DefaultParam(@)),
                            ![c].localEndpoint = Some(DefaultParam(@))]
    /\ UNCHANGED sent

\* The proxy fetch settles, with an outcome net of the given set; the adapter
\* runs to its end.
FallbackSettles(c, outcomes) ==
    /\ pc[c] = "fallback"
    /\ \E net \in outcomes :
          /\ recv' = [recv EXCEPT ![c] = Append(@, net)]
          /\ LET ended == AfterFallback(Params(args[c]), net) IN
             /\ inner' = [inner EXCEPT ![c] = ended]
             /\ result' = [result EXCEPT ![c] = Settle(ended)]
    /\ inflight' = inflight \ {<<c, Len(sent[c])>>}
    /\ pc' = [pc EXCEPT ![c] = "done"]
    /\ UNCHANGED <<args, sent>>

FallbackDone(c) == FallbackSettles(c, Outcomes)

\* The caller has taken the settled call's result; nothing of the call remains.
Forget(c) ==
    /\ pc[c] = "done"
    /\ pc' = [pc EXCEPT ![c] = "idle"]
    /\ args' = [args EXCEPT ![c] = NoCall]
    /\ sent' = [sent EXCEPT ![c] = <<>>]
    /\ recv' = [recv EXCEPT ![c] = <<>>]
    /\ inner' = [inner EXCEPT ![c] = Pending]
    /\ result' = [result EXCEPT ![c] = Pending]
    /\ UNCHANGED inflight

\* The gateway called on its own: the UI controller takes no step.
Next ==
    /\ \E c \in Calls :
          \/ Start(c)
          \/ PrimaryDone(c)
          \/ FallbackDone(c)
          \/ Forget(c)
    /\ UNCHANGED ui

Spec == Init /\ [][Next]_vars

(* ======================= properties of the gateway ==================== *)

KnownProviders == {"openrouter", "huggingface", "local"}

\* The message sendChat puts in front of every failure it reports.
Failed(message) == Throw(Err("Error", <<"AI request failed: ">> \o message))

\* part occurs in text as a run of consecutive tokens.
Contains(text, part) ==
    \E i \in 0..(Len(text) - Len(part)) :
        \A j \in 1..Len(part) : text[i + j] = part[j]

\* The first network outcome a call has received.
Primary(c) == recv[c][1]

GotPrimary(c) == Len(recv[c]) >= 1

GotResponse(c) == GotPrimary(c) /\ Primary(c).kind = "resp"

Got2xx(c) == GotResponse(c) /\ Primary(c).status \in 200..299

\* C1: for every provider value other than 'openrouter', 'huggingface' and
\* 'local', sendChat fails with the unsupported-provider error, and at no
\* point of the call has a network request been issued.
C1_UnsupportedProvider ==
    \A c \in Calls :
        pc[c] # "idle" /\ args[c].provider \notin KnownProviders =>
            /\ pc[c] = "done"
            /\ result[c] = Failed(<<"Unsupported provider: ", args[c].provider>>)
            /\ sent[c] = <<>>
            /\ \A i \in 1..2 : <<c, i>> \notin inflight

C1_Witness ==
    \E c \in Calls :
        /\ pc[c] = "done"
        /\ args[c].provider = "azure"
        /\ result[c].tag = "throw"

\* The apiKey argument is omitted or is the empty string.
NoApiKey(c) == ~Has(args[c].apiKey) \/ Get(args[c].apiKey) = <<>>

\* C2: sendChat with provider 'openrouter' and an empty or absent apiKey fails
\* with the missing-credentials error, whatever the model and the messages,
\* and no network request is issued.
C2_MissingCredentials ==
    \A c \in Calls :
        pc[c] # "idle" /\ args[c].provider = "openrouter" /\ NoApiKey(c) =>
            /\ pc[c] = "done"
            /\ result[c] = Failed(<<"OpenRouter API key is required">>)
            /\ sent[c] = <<>>
            /\ \A i \in 1..2 : <<c, i>> \notin inflight

C2_Witness ==
    \E c \in Calls :
        /\ pc[c] = "done"
        /\ args[c].provider = "openrouter"
        /\ ~Has(args[c].apiKey)
        /\ args[c].messages # <<>>
        /\ result[c].tag = "throw"

\* C3: every failure of sendChat, whichever adapter or dispatch branch raised
\* it, reaches the caller as one Error whose message is 'AI request failed: '
\* followed by the message of the error that was raised; sendChat fails
\* exactly when the adapter or the dispatch did.
C3_UniformFailure ==
    \A c \in Calls :
        pc[c] = "done" =>
            /\ result[c].tag \in {"return", "throw"}
            /\ (result[c].tag = "throw") <=> (inner[c].tag = "throw")
            /\ result[c].tag = "throw" =>
                  /\ result[c].error.name = "Error"
                  /\ result[c].error.message =
                        <<"AI request failed: ">> \o inner[c].error.message

C3_Witness ==
    \E c \in Calls :
        /\ pc[c] = "done"
        /\ inner[c].tag = "throw"
        /\ inner[c].error.name = "TypeError"
        /\ result[c].error.name = "Error"

\* The provider's documented success shape, with a content string that is
\* not empty, in a 2xx primary response.
WellFormed(c) ==
    /\ Got2xx(c)
    /\ LET body == Primary(c).body IN
       CASE args[c].provider = "openrouter" ->
               /\ body.kind = "object"
               /\ Has(body.choices)
               /\ Get(body.choices) # <<>>
               /\ ~Get(body.choices)[1].null
               /\ Has(Get(body.choices)[1].message)
               /\ Truthy(Get(Get(body.choices)[1].message).content)
         [] args[c].provider = "huggingface" ->
               \/ /\ body.kind = "array"
                  /\ body.items # <<>>
                  /\ Truthy(body.items[1].generated_text)
               \/ /\ body.kind = "object"
                  /\ Truthy(body.generated_text)
         [] args[c].provider = "local" ->
               /\ body.kind = "object"
               /\ Has(body.message)
               /\ Truthy(Get(body.message).content)
         [] OTHER -> FALSE

\* The text the documented shape carries.
Extracted(c) ==
    LET body == Primary(c).body IN
    CASE args[c].provider = "openrouter" ->
            Get(Get(Get(body.choices)[1].message).content)
      [] args[c].provider = "huggingface" ->
            IF body.kind = "array" THEN Get(body.items[1].generated_text)
            ELSE Get(body.generated_text)
      [] OTHER -> Get(Get(body.message).content)

\* Leading and trailing whitespace removed, stated without Trim: the longest
\* run of t that neither starts nor ends with whitespace and has only
\* whitespace around it.
IsTrimOf(r, t) ==
    /\ r = <<>> \/ (r[1] # WS /\ r[Len(r)] # WS)
    /\ \E i \in 0..Len(t) :
          /\ i + Len(r) <= Len(t)
          /\ \A j \in 1..Len(r) : t[i + j] = r[j]
          /\ \A j \in 1..Len(t) : (j <= i \/ j > i + Len(r)) => t[j] = WS

\* C4 as stated: for all three providers a well-formed success response makes
\* sendChat return the extracted text trimmed of surrounding whitespace.
C4_AllTrimmed ==
    \A c \in Calls :
        pc[c] = "done" /\ WellFormed(c) =>
            /\ result[c].tag = "return"
            /\ Has(result[c].value)
            /\ IsTrimOf(Get(result[c].value), Extracted(c))

\* C4 amended: for 'huggingface' and 'local' a well-formed success response
\* makes sendChat return the extracted text trimmed of surrounding
\* whitespace; for 'openrouter' it returns the extracted text untrimmed.
C4_TrimmedExceptOpenRouter ==
    \A c \in Calls :
        WellFormed(c) =>
            /\ pc[c] = "done"
            /\ result[c].tag = "return"
            /\ Has(result[c].value)
            /\ IF args[c].provider = "openrouter"
               THEN Get(result[c].value) = Extracted(c)
               ELSE IsTrimOf(Get(result[c].value), Extracted(c))

C4_Witness ==
    \E c \in Calls :
        /\ pc[c] = "done"
        /\ WellFormed(c)
        /\ args[c].provider = "local"
        /\ Extracted(c) = <<WS, "hi", WS>>
        /\ result[c] = Return(Some(<<"hi">>))

\* C5: for 'openrouter', when the primary response is 2xx and its body has a
\* choice list whose first choice carries a message, sendChat returns that
\* message's content unchanged (leading and trailing whitespace included).
C5_OpenRouterVerbatim ==
    \A c \in Calls :
        (/\ args[c].provider = "openrouter"
         /\ Got2xx(c)
         /\ Primary(c).body.kind = "object"
         /\ Has(Primary(c).body.choices)
         /\ Get(Primary(c).body.choices) # <<>>
         /\ ~Get(Primary(c).body.choices)[1].null
         /\ Has(Get(Primary(c).body.choices)[1].message)) =>
            /\ pc[c] = "done"
            /\ Len(sent[c]) = 1
            /\ result[c] =
                  Return(Get(Get(Primary(c).body.choices)[1].message).content)

C5_Witness ==
    \E c \in Calls :
        /\ pc[c] = "done"
        /\ args[c].provider = "openrouter"
        /\ Got2xx(c)
        /\ Has(Primary(c).body.choices)
        /\ Len(Get(Primary(c).body.choices)) = 2
        /\ result[c] = Return(Some(<<WS, "hi", WS>>))

\* C6: for 'openrouter', a 2xx response whose body is an object with no
\* choice list or an empty one makes sendChat fail with the
\* invalid-response-format error, not with a property-access TypeError.
C6_EmptyChoices ==
    \A c \in Calls :
        (/\ args[c].provider = "openrouter"
         /\ Got2xx(c)
         /\ Primary(c).body.kind = "object"
         /\ \/ ~Has(Primary(c).body.choices)
            \/ Get(Primary(c).body.choices) = <<>>) =>
            /\ pc[c] = "done"
            /\ inner[c].error.name = "Error"
            /\ result[c] = Failed(<<"Invalid response format from OpenRouter">>)

C6_Witness ==
    \E c \in Calls :
        /\ pc[c] = "done"
        /\ args[c].provider = "openrouter"
        /\ Got2xx(c)
        /\ Primary(c).body = ObjectBody(Some(<<>>), None, None, None)
        /\ result[c].tag = "throw"

\* The message a non-2xx body's error envelope carries, if any.
RemoteMessage(c) ==
    LET body == Primary(c).body IN
    IF Has(body.error) /\ Truthy(Get(body.error).message)
    THEN Get(body.error).message
    ELSE None

\* C7: for all three providers, when the primary response has a status outside
\* [200,300), sendChat fails with an error whose message contains the message
\* of the remote error envelope or the numeric status code, whatever the body.
C7_StatusOrRemoteMessage ==
    \A c \in Calls :
        (/\ pc[c] = "done"
         /\ args[c].provider \in KnownProviders
         /\ GotResponse(c)
         /\ Primary(c).status \notin 200..299) =>
            /\ result[c].tag = "throw"
            /\ \/ Includes(result[c].error.message, ToString(Primary(c).status))
               \/ /\ Has(RemoteMessage(c))
                  /\ Contains(result[c].error.message, Get(RemoteMessage(c)))

\* C7, bodies that are JSON null left aside: the same statement holds.
C7_ExceptNullBody ==
    \A c \in Calls :
        (/\ pc[c] = "done"
         /\ args[c].provider \in KnownProviders
         /\ GotResponse(c)
         /\ Primary(c).status \notin 200..299
         /\ ~(Primary(c).body.kind = "null" /\ args[c].provider # "local")) =>
            /\ result[c].tag = "throw"
            /\ \/ Includes(result[c].error.message, ToString(Primary(c).status))
               \/ /\ Has(RemoteMessage(c))
                  /\ Contains(result[c].error.message, Get(RemoteMessage(c)))

\* The transport failure is one the adapters take for a cross-origin block.
CrossOrigin(error) ==
    error.name = "TypeError" /\ \E i \in DOMAIN error.message : error.message[i] = "CORS"

\* decodeURIComponent on one token.
DecodeToken(t) ==
    CASE t = "%3A" -> ":"
      [] t = "%2F" -> "/"
      [] t = "%3F" -> "?"
      [] t = "%3D" -> "="
      [] OTHER -> t

\* url is the proxy's raw endpoint with target as its url parameter.
ProxyFor(url, target) ==
    /\ Len(url) = 10 + Len(target)
    /\ SubSeq(url, 1, 10) =
          <<"https", ":", "/", "/", "api.allorigins.win", "/", "raw", "?",
            "url", "=">>
    /\ \A i \in 1..Len(target) :
          /\ url[10 + i] \notin {":", "/", "?", "="}
          /\ DecodeToken(url[10 + i]) = target[i]

\* The CORS-fallback error of each adapter.
CorsFallbackError(provider) ==
    IF provider = "openrouter"
    THEN <<"CORS", "error - try enabling browser", "CORS",
           "extension or use different provider">>
    ELSE <<"CORS", "error - HuggingFace may require API key",
           "or try different model">>

\* The proxy request failed: no response, or a status outside [200,300).
RetryFailed(c) ==
    /\ Len(recv[c]) = 2
    /\ \/ recv[c][2].kind = "fail"
       \/ recv[c][2].status \notin 200..299

\* C8: for 'openrouter' and 'huggingface', a transport failure of the primary
\* request that is classified as cross-origin is retried exactly once, through
\* the proxy, for the same target URL; if the retry fails too, sendChat fails
\* with the CORS-fallback error; a transport failure not so classified
\* propagates with no retry.
C8_CorsRetryOnce ==
    \A c \in Calls :
        (/\ args[c].provider \in {"openrouter", "huggingface"}
         /\ GotPrimary(c)
         /\ Primary(c).kind = "fail") =>
            IF CrossOrigin(Primary(c).error)
            THEN /\ pc[c] \in {"fallback", "done"}
                 /\ Len(sent[c]) = 2
                 /\ ProxyFor(sent[c][2].url, sent[c][1].url)
                 /\ pc[c] = "done" => Len(recv[c]) = 2
                 /\ RetryFailed(c) =>
                       /\ pc[c] = "done"
                       /\ result[c] = Failed(CorsFallbackError(args[c].provider))
            ELSE /\ pc[c] = "done"
                 /\ Len(sent[c]) = 1
                 /\ result[c] = Failed(Primary(c).error.message)

C8_Witness ==
    \E c \in Calls :
        /\ pc[c] = "done"
        /\ args[c].provider = "huggingface"
        /\ Len(args[c].model) = 3
        /\ Len(recv[c]) = 2
        /\ CrossOrigin(recv[c][1].error)
        /\ recv[c][2].kind = "fail"
        /\ result[c].tag = "throw"

\* C9: within one call the proxy request is issued only after the primary
\* request has failed: the two are never outstanding together.
C9_FallbackAfterPrimary ==
    \A c \in Calls :
        /\ ~(<<c, 1>> \in inflight /\ <<c, 2>> \in inflight)
        /\ Len(sent[c]) >= 2 =>
              /\ GotPrimary(c)
              /\ Primary(c).kind = "fail"
              /\ <<c, 1>> \notin inflight

C9_Witness ==
    \E c \in Calls :
        /\ pc[c] = "fallback"
        /\ <<c, 2>> \in inflight
        /\ <<c, 1>> \notin inflight

\* C10: nothing is retried but the one proxy fallback: a call issues at most
\* two requests, at most one for 'local', none on an unsupported provider or
\* a missing key; and a primary request that got a response (a non-2xx status,
\* or a 2xx with a malformed body) ends the call with no further request.
C10_NoOtherRetry ==
    \A c \in Calls :
        /\ Len(sent[c]) <= 2
        /\ args[c].provider = "local" => Len(sent[c]) <= 1
        /\ args[c].provider \notin KnownProviders => Len(sent[c]) = 0
        /\ args[c].provider = "openrouter" /\ NoApiKey(c) => Len(sent[c]) = 0
        /\ GotResponse(c) =>
              /\ pc[c] = "done"
              /\ Len(sent[c]) = 1
              /\ Len(recv[c]) = 1
              /\ \A i \in 1..2 : <<c, i>> \notin inflight

C10_Witness ==
    \E c \in Calls :
        /\ pc[c] = "done"
        /\ args[c].provider = "huggingface"
        /\ GotResponse(c)
        /\ Primary(c).status = 300
        /\ Primary(c).body.error = Some(ErrorObj(Some(<<"CORS", "denied">>)))
        /\ Len(sent[c]) = 1
        /\ result[c].tag = "throw"

(* ----------------------------- local server --------------------------- *)

\* The message of the one error sendLocalChat reports for an unreachable server.
LocalUnreachable ==
    <<"Cannot connect to Ollama server. Make sure Ollama is running on the specified endpoint and",
      "CORS", "is enabled.">>

\* C11: for the 'local' provider, every transport failure of the request,
\* whatever its error message, ends the call with the one
\* local-server-unreachable error, and the call never issues a second (proxy)
\* request.
C11_LocalUnreachable ==
    \A c \in Calls :
        args[c].provider = "local" =>
            /\ Len(sent[c]) <= 1
            /\ GotPrimary(c) /\ Primary(c).kind = "fail" =>
                  /\ pc[c] = "done"
                  /\ result[c] = Failed(LocalUnreachable)

\* The part of C11 the adapter keeps: a 'local' call never issues a proxy
\* request, and a transport failure whose message holds 'Failed to fetch' or
\* 'CORS' is reported as the local-server-unreachable error.
C11_NoProxyRetry ==
    \A c \in Calls :
        args[c].provider = "local" =>
            /\ Len(sent[c]) <= 1
            /\ \A i \in 1..Len(sent[c]) :
                  sent[c][i].url = LocalEndpoint(Params(args[c]).localEndpoint)
            /\ GotPrimary(c) /\ Primary(c).kind = "fail"
                  /\ (\/ Includes(Primary(c).error.message, "Failed to fetch")
                      \/ Includes(Primary(c).error.message, "CORS")) =>
                  /\ pc[c] = "done"
                  /\ result[c] = Failed(LocalUnreachable)

(* --------------------------- malformed bodies ------------------------- *)

\* The invalid-response-format error of each adapter, as sendChat reports it.
InvalidFormat(provider) ==
    Failed(<<CASE provider = "openrouter" ->
                    "Invalid response format from OpenRouter"
               [] provider = "huggingface" ->
                    "Invalid response format from HuggingFace"
               [] OTHER -> "Invalid response format from Ollama">>)

\* A 2xx primary response whose body is one of the malformed bodies C12
\* names: a body that is not JSON, a hosted-router body whose first choice
\* has no message, a local body without message content.
Malformed(c) ==
    /\ Got2xx(c)
    /\ LET body == Primary(c).body IN
       \/ body.kind = "unparseable"
       \/ /\ args[c].provider = "openrouter"
          /\ body.kind = "object"
          /\ Has(body.choices)
          /\ Get(body.choices) # <<>>
          /\ ~Get(body.choices)[1].null
          /\ ~Has(Get(body.choices)[1].message)
       \/ /\ args[c].provider = "local"
          /\ body.kind = "object"
          /\ \/ ~Has(body.message)
             \/ ~Has(Get(body.message).content)

\* C12: for every provider, a 2xx primary response whose body cannot be
\* parsed or has an unexpected shape ends the call with that provider's
\* invalid-response-format error.
C12_InvalidFormat ==
    \A c \in Calls :
        args[c].provider \in KnownProviders /\ Malformed(c) =>
            /\ pc[c] = "done"
            /\ result[c] = InvalidFormat(args[c].provider)

\* The case of C12 the adapters keep: a parsed local body without message
\* content is reported as the invalid-response-format error.
C12_LocalWithoutContent ==
    \A c \in Calls :
        /\ args[c].provider = "local"
        /\ Malformed(c)
        /\ Primary(c).body.kind = "object"
        => result[c] = InvalidFormat("local")

(* ----------------------- inference-host responses --------------------- *)

\* The generated text a 2xx inference-host body carries in one of its two
\* documented forms: an array whose first element has a non-empty
\* generated_text, or an object with a non-empty generated_text of its own.
GeneratedText(body) ==
    IF /\ body.kind = "array"
       /\ body.items # <<>>
       /\ Truthy(body.items[1].generated_text)
    THEN body.items[1].generated_text
    ELSE IF body.kind = "object" /\ Truthy(body.generated_text)
    THEN body.generated_text
    ELSE None

\* C13: for 'huggingface', a 2xx primary response whose body has one of the
\* two documented forms ends the call with the trimmed generated text, and a
\* 2xx primary response with any other body ends it with the
\* invalid-response-format error.
C13_GeneratedTextOrInvalid ==
    \A c \in Calls :
        args[c].provider = "huggingface" /\ Got2xx(c) =>
            /\ pc[c] = "done"
            /\ IF Has(GeneratedText(Primary(c).body))
               THEN /\ result[c].tag = "return"
                    /\ Has(result[c].value)
                    /\ IsTrimOf(Get(result[c].value),
                                Get(GeneratedText(Primary(c).body)))
               ELSE result[c] = InvalidFormat("huggingface")

\* C13 for the bodies that parse to an array or an object: these the adapter
\* treats as the claim says.
C13_ParsedBodies ==
    \A c \in Calls :
        /\ args[c].provider = "huggingface"
        /\ Got2xx(c)
        /\ Primary(c).body.kind \in {"array", "object"}
        => /\ pc[c] = "done"
           /\ IF Has(GeneratedText(Primary(c).body))
              THEN /\ result[c].tag = "return"
                   /\ Has(result[c].value)
                   /\ IsTrimOf(Get(result[c].value),
                               Get(GeneratedText(Primary(c).body)))
              ELSE result[c] = InvalidFormat("huggingface")

(* -------------------------- nothing swallowed ------------------------- *)

\* A parsed body of the shape the provider documents for a reply: a first
\* choice with a message that has a content, a generated text in one of the
\* two forms, a message with a content.
ExpectedShape(provider, body) ==
    CASE provider = "openrouter" ->
            /\ body.kind = "object"
            /\ Has(body.choices)
            /\ Get(body.choices) # <<>>
            /\ ~Get(body.choices)[1].null
            /\ Has(Get(body.choices)[1].message)
            /\ Has(Get(Get(body.choices)[1].message).content)
      [] provider = "huggingface" -> Has(GeneratedText(body))
      [] provider = "local" ->
            /\ body.kind = "object"
            /\ Has(body.message)
            /\ Has(Get(body.message).content)
      [] OTHER -> FALSE

\* A network outcome that carries a reply: a 2xx response of the expected shape.
GoodOutcome(provider, net) ==
    /\ net.kind = "resp"
    /\ net.status \in 200..299
    /\ ExpectedShape(provider, net.body)

\* The call is not on the inference-host proxy-fallback path.
OffSalvagePath(c) == ~(args[c].provider = "huggingface" /\ Len(sent[c]) = 2)

\* C14: off the inference-host proxy-fallback path, a settled call has
\* returned only if it returned a reply string and one of its responses was a
\* 2xx of the expected shape; a call whose last outcome is a transport
\* failure, a non-2xx status or a malformed body has raised a failure.
C14_NothingSwallowed ==
    \A c \in Calls :
        pc[c] = "done" /\ OffSalvagePath(c) =>
            /\ result[c].tag = "return" =>
                  /\ Has(result[c].value)
                  /\ \E i \in 1..Len(recv[c]) :
                        GoodOutcome(args[c].provider, recv[c][i])
            /\ /\ recv[c] # <<>>
               /\ ~GoodOutcome(args[c].provider, recv[c][Len(recv[c])])
               => result[c].tag = "throw"

\* What the adapters keep of C14: a call that returned off the salvage path
\* had a last response with a 2xx status and a body the adapter's own tests
\* accept, which for the hosted router is a first choice with a message,
\* whether or not the message has a content.
C14_ReturnsNeed2xx ==
    \A c \in Calls :
        pc[c] = "done" /\ OffSalvagePath(c) /\ result[c].tag = "return" =>
            LET net == recv[c][Len(recv[c])] IN
            /\ recv[c] # <<>>
            /\ net.kind = "resp"
            /\ net.status \in 200..299
            /\ net.body.kind \in {"object", "array"}
            /\ args[c].provider # "openrouter" =>
                  /\ GoodOutcome(args[c].provider, net)
                  /\ Has(result[c].value)
            /\ args[c].provider = "openrouter" =>
                  /\ Has(net.body.choices)
                  /\ Get(net.body.choices) # <<>>
                  /\ Has(Get(net.body.choices)[1].message)
                  /\ result[c].value =
                        Get(Get(net.body.choices)[1].message).content

(* ------------------------ inference-host salvage ---------------------- *)

\* An optional text with something other than whitespace in it.
NonBlank(text) == Has(text) /\ \E i \in DOMAIN Get(text) : Get(text)[i] # WS

\* The inference-host call has ended on its proxy-fallback path.
SalvagePathEnded(c) ==
    /\ args[c].provider = "huggingface"
    /\ pc[c] = "done"
    /\ Len(recv[c]) = 2

\* The reply the salvage gives for a parsed proxy body: the trimmed generated
\* text of the array's first element or of the object, when it is not empty,
\* and the placeholder otherwise.
SalvagedFrom(value, body) ==
    LET first == IF body.kind = "array" /\ body.items # <<>>
                 THEN body.items[1].generated_text
                 ELSE None
    IN  IF NonBlank(first) THEN IsTrimOf(value, Get(first))
        ELSE IF NonBlank(body.generated_text)
        THEN IsTrimOf(value, Get(body.generated_text))
        ELSE value = <<"No response generated">>

\* C15 as stated: on the inference-host proxy-fallback path a 2xx proxy
\* response whose body can be read makes sendChat return the salvaged text or
\* the placeholder, and the CORS-fallback error is raised only when the proxy
\* request fails, is non-2xx, or its body cannot be read.
C15_SalvageUnlessUnreadable ==
    \A c \in Calls :
        SalvagePathEnded(c) =>
            LET net == recv[c][2] IN
            IF /\ net.kind = "resp"
               /\ net.status \in 200..299
               /\ net.body.kind # "unparseable"
            THEN /\ result[c].tag = "return"
                 /\ Has(result[c].value)
                 /\ SalvagedFrom(Get(result[c].value), net.body)
            ELSE result[c] = Failed(CorsFallbackError("huggingface"))

\* C15, amended: the CORS-fallback error is raised also when the proxy's 2xx
\* body is the JSON value null; every other 2xx proxy body that can be read
\* gives the salvaged text or the placeholder as a successful reply.
C15_SalvageUnlessUnreadableOrNull ==
    \A c \in Calls :
        SalvagePathEnded(c) =>
            LET net == recv[c][2] IN
            IF /\ net.kind = "resp"
               /\ net.status \in 200..299
               /\ net.body.kind \notin {"unparseable", "null"}
            THEN /\ result[c].tag = "return"
                 /\ Has(result[c].value)
                 /\ SalvagedFrom(Get(result[c].value), net.body)
            ELSE result[c] = Failed(CorsFallbackError("huggingface"))

C15_Witness ==
    \E c \in Calls :
        /\ SalvagePathEnded(c)
        /\ recv[c][2].kind = "resp"
        /\ recv[c][2].status = 299
        /\ recv[c][2].body.kind = "array"
        /\ recv[c][2].body.items # <<>>
        /\ recv[c][2].body.items[1].generated_text = Some(<<WS>>)
        /\ result[c] = Return(Some(<<"No response generated">>))

(* --------------------------- prompt flattening ------------------------ *)

\* The longest message list the prompt is checked for.
MaxMessages == 2

PromptRoles == {"system", "user", "assistant", "tool"}

PromptContents == {<<"A">>, <<"B">>}

\* Every message list of at most MaxMessages messages over these roles and
\* contents.
PromptLists ==
    SeqsUpTo({Msg(r, t) : r \in PromptRoles, t \in PromptContents}, MaxMessages)

\* What the primary fetch of a prompt call may settle with.
PromptOutcomes ==
    {Failure(Err("TypeError", <<"Failed to fetch">>)),
     Response(200, ObjectBody(None, Some(<<"hi">>), None, None))}

\* sendChat('huggingface', model, messages) with any message list.
StartPrompt(c) ==
    /\ \A d \in Calls : pc[d] = "idle"
    /\ Begin(c, {"huggingface"}, {<<"llama3">>}, PromptLists, {None}, {None})

PromptDone(c) == PrimarySettles(c, PromptOutcomes)

NextPrompt ==
    /\ \E c \in Calls :
          \/ StartPrompt(c)
          \/ PromptDone(c)
          \/ Forget(c)
    /\ UNCHANGED ui

SpecPrompt == Init /\ [][NextPrompt]_vars

\* The label a role is rendered with; none for a role that is not one of the
\* three.
RoleLabel(role) ==
    CASE role = "system" -> <<"System: ">>
      [] role = "user" -> <<"User: ">>
      [] role = "assistant" -> <<"Assistant: ">>
      [] OTHER -> <<>>

\* The first n messages, each rendered with its label, joined by newlines.
RECURSIVE Rendered(_, _)
Rendered(messages, n) ==
    IF n = 0 THEN <<>>
    ELSE (IF n = 1 THEN <<>> ELSE Rendered(messages, n - 1) \o <<"\n">>)
            \o RoleLabel(messages[n].role) \o messages[n].content

\* C16: the prompt an inference-host call sends is its messages in order,
\* each rendered as 'System: <content>', 'User: <content>' or
\* 'Assistant: <content>' by role and a message of any other role as its raw
\* content, joined by newline and followed by '\nAssistant:'; [system A,
\* user B] gives 'System: A\nUser: B\nAssistant:'.
C16_PromptFlattening ==
    \A c \in Calls :
        args[c].provider = "huggingface" /\ pc[c] # "idle" =>
            /\ Len(sent[c]) >= 1
            /\ sent[c][1].body.inputs =
                  Rendered(args[c].messages, Len(args[c].messages))
                      \o <<"\n", "Assistant:">>
            /\ args[c].messages =
                  <<Msg("system", <<"A">>), Msg("user", <<"B">>)>>
                  => sent[c][1].body.inputs =
                        <<"System: ", "A", "\n", "User: ", "B", "\n",
                          "Assistant:">>

C16_Witness ==
    \E c \in Calls :
        /\ pc[c] = "done"
        /\ args[c].provider = "huggingface"
        /\ args[c].messages = <<Msg("tool", <<"B">>), Msg("system", <<"A">>)>>
        /\ sent[c][1].body.inputs =
              <<"B", "\n", "System: ", "A", "\n", "Assistant:">>

(* ---------------------------- local endpoint -------------------------- *)

\* No endpoint was supplied to the call: the argument is absent or ''.
NoEndpoint(c) ==
    ~Has(args[c].localEndpoint) \/ Get(args[c].localEndpoint) = <<>>

\* C17: a 'local' call sends one request; with no endpoint supplied (absent
\* or empty) its URL is exactly http://localhost:11434/api/chat, and with a
\* non-empty endpoint supplied its URL is exactly that endpoint.
C17_LocalEndpoint ==
    \A c \in Calls :
        args[c].provider = "local" /\ pc[c] # "idle" =>
            /\ Len(sent[c]) = 1
            /\ sent[c][1].url =
                  IF NoEndpoint(c)
                  THEN <<"http", ":", "/", "/", "localhost", ":", "11434",
                         "/", "api", "/", "chat">>
                  ELSE Get(args[c].localEndpoint)

C17_Witness ==
    \E c \in Calls :
        /\ pc[c] = "done"
        /\ args[c].provider = "local"
        /\ args[c].localEndpoint = Some(<<>>)
        /\ Len(recv[c]) = 1
        /\ sent[c][1].url =
              <<"http", ":", "/", "/", "localhost", ":", "11434", "/", "api",
                "/", "chat">>

(* --------------------------- concurrent calls ------------------------- *)

ConcProviders == {"openrouter", "huggingface", "local"}

\* What a fetch of one of several concurrent calls may settle with.
ConcOutcomes ==
    {Failure(Err("TypeError", <<"Blocked by", "CORS", "policy">>)),
     Response(200,
              ObjectBody(Some(<<ChoiceObj(Some(MessageVal(Some(<<"hi">>))))>>),
                         None, None, None)),
     Response(200, ObjectBody(None, Some(<<WS, "hi", WS>>), None, None)),
     Response(500, EmptyObject)}

\* sendChat called while other calls may be in flight.
StartConc(c) ==
    Begin(c, ConcProviders, {<<"llama3">>}, MessageLists, {Some(<<"sk-1">>)},
          {None})

PrimaryConc(c) == PrimarySettles(c, ConcOutcomes)

FallbackConc(c) == FallbackSettles(c, ConcOutcomes)

NextConc ==
    /\ \E c \in Calls :
          \/ StartConc(c)
          \/ PrimaryConc(c)
          \/ FallbackConc(c)
          \/ Forget(c)
    /\ UNCHANGED ui

SpecConc == Init /\ [][NextConc]_vars

\* The request body a call's own arguments give.
OwnBody(a) ==
    CASE a.provider = "openrouter" ->
            [model |-> a.model, messages |-> a.messages,
             temperature |-> "0.7", max_tokens |-> 500]
      [] a.provider = "huggingface" ->
            [inputs |-> Rendered(a.messages, Len(a.messages))
                            \o <<"\n", "Assistant:">>,
             parameters |-> [max_new_tokens |-> 500, temperature |-> "0.7",
                             return_full_text |-> FALSE]]
      [] OTHER ->
            [model |-> a.model, messages |-> a.messages, stream |-> FALSE,
             options |-> [temperature |-> "0.7", num_predict |-> 500]]

\* Every request of the call carries the body its own arguments give.
OwnRequests(c) ==
    \A i \in 1..Len(sent[c]) : sent[c][i].body = OwnBody(args[c])

\* Two calls with the same arguments that have received the same outcomes
\* have sent the same requests and have the same result.
SameInSameOut ==
    \A c, d \in Calls :
        (/\ args[c] = args[d]
         /\ recv[c] = recv[d]
         /\ pc[c] # "idle"
         /\ pc[d] # "idle") =>
            /\ sent[c] = sent[d]
            /\ result[c] = result[d]
            /\ pc[c] = pc[d]

\* A step is a step of one call: what belongs to the other calls is as it was.
OneCallSteps ==
    \E c \in Calls :
        \A d \in Calls \ {c} :
            /\ pc'[d] = pc[d] /\ args'[d] = args[d]
            /\ sent'[d] = sent[d] /\ recv'[d] = recv[d]
            /\ inner'[d] = inner[d] /\ result'[d] = result[d]
            /\ \A i \in 1..2 :
                  (<<d, i>> \in inflight') = (<<d, i>> \in inflight)

\* C18: concurrent sendChat calls are independent: under every interleaving
\* of their starts and of their fetches' settlements, each call's requests
\* carry the body its own arguments give, its result is determined by its own
\* arguments and the outcomes it received, and no step of one call changes
\* anything of another.
C18_Independent ==
    /\ [](\A c \in Calls : OwnRequests(c))
    /\ []SameInSameOut
    /\ [][OneCallSteps]_vars

\* Two calls in flight at once: the one started first is waiting for its
\* proxy fetch, the other has settled meanwhile.
C18_Witness ==
    \E c, d \in Calls :
        /\ pc[c] = "fallback"
        /\ pc[d] = "done"
        /\ args[c].provider = "openrouter"
        /\ args[d].provider = "huggingface"
        /\ args[c].messages # args[d].messages
        /\ Len(recv[d]) = 2
        /\ result[d].tag = "return"

(* ------------------------------- inputs ------------------------------- *)

\* A step of a call in progress leaves the values the caller passed as they
\* were.
ArgsKept ==
    \A c \in Calls :
        pc[c] # "idle" /\ pc'[c] # "idle" => args'[c] = args[c]

\* Once a call has ended no request of it, and so no copy of the credentials
\* a request carries, is outstanding.
NothingOutstanding ==
    \A c \in Calls :
        pc[c] \in {"done", "idle"} => \A i \in 1..2 : <<c, i>> \notin inflight

\* Once the caller has taken the result, nothing of the call is held.
NothingRetained ==
    \A c \in Calls :
        pc[c] = "idle" =>
            /\ args[c] = NoCall
            /\ sent[c] = <<>>
            /\ recv[c] = <<>>

\* C19: sendChat leaves its inputs unchanged: through every step of a call,
\* on every path, the message list, apiKey, model and endpoint the caller
\* passed stay what they were; and after the call has ended the gateway holds
\* no request and no value of the call.
C19_InputsUnchanged ==
    /\ [][ArgsKept]_vars
    /\ []NothingOutstanding
    /\ []NothingRetained

\* A call that ended on the proxy-fallback path with the arguments as passed:
\* apiKey and localEndpoint still omitted.
C19_Witness ==
    \E c \in Calls :
        /\ pc[c] = "done"
        /\ Len(recv[c]) = 2
        /\ args[c].provider = "huggingface"
        /\ args[c].apiKey = None
        /\ args[c].localEndpoint = None
        /\ args[c].messages =
              <<Msg("system", <<"A">>), Msg("user", <<"B">>)>>

(* ------------------------ apiKey and the local server ----------------- *)

\* The call's arguments with the apiKey replaced by the empty string.
Keyless(c) == Params([args[c] EXCEPT !.apiKey = Some(<<>>)])

\* C20: for provider 'local' the apiKey is ignored: whatever apiKey is
\* passed, no request of the call carries an Authorization header, and the
\* requests sent and the result are those of the same call, with the same
\* network outcomes, made with an empty apiKey.
C20_LocalIgnoresKey ==
    \A c \in Calls :
        args[c].provider = "local" /\ pc[c] # "idle" =>
            /\ \A i \in 1..Len(sent[c]) :
                  sent[c][i].headers.Authorization = None
            /\ sent[c] = EntryRequests(Keyless(c))
            /\ pc[c] = "done" =>
                  /\ Len(recv[c]) = 1
                  /\ result[c] = Settle(AfterPrimary(Keyless(c), recv[c][1]))

C20_Witness ==
    \E c \in Calls :
        /\ pc[c] = "done"
        /\ args[c].provider = "local"
        /\ args[c].apiKey = Some(<<"sk-1">>)
        /\ Len(sent[c]) = 1
        /\ sent[c][1].headers.Authorization = None
        /\ result[c].tag = "return"

(* --------------------- inference-host credentials --------------------- *)

\* C21: a 'huggingface' call goes to the network with or without an apiKey,
\* and its request carries an Authorization header exactly when a non-empty
\* apiKey was passed, the header then being 'Bearer ' followed by that key.
C21_BearerIffKey ==
    \A c \in Calls :
        args[c].provider = "huggingface" /\ pc[c] # "idle" =>
            /\ Len(sent[c]) >= 1
            /\ sent[c][1].headers.Authorization =
                  IF NoApiKey(c) THEN None
                  ELSE Some(<<"Bearer ">> \o Get(args[c].apiKey))

C21_Witness ==
    \E c \in Calls :
        /\ pc[c] = "primary"
        /\ args[c].provider = "huggingface"
        /\ args[c].apiKey = Some(<<>>)
        /\ Len(sent[c]) = 1
        /\ <<c, 1>> \in inflight
        /\ sent[c][1].headers.Authorization = None

(* ============ the inlined copy of the gateway (AIProviders) =========== *)

\* Faulty variant of InlinedWithCors: the target URL is not encoded.
InlinedWithCorsRaw(url) ==
    <<"https", ":", "/", "/", "api.allorigins.win", "/", "raw", "?", "url",
      "=">> \o url

\* AIProviders.withCors(url)
InlinedWithCors(url) ==
    <<"https", ":", "/", "/", "api.allorigins.win", "/", "raw", "?", "url",
      "=">> \o EncodeURIComponent(url)

\* AIProviders.getDefaultModels()
InlinedDefaultModels ==
    [openrouter |-> <<"deepseek", "/", "deepseek-r1:free">>,
     huggingface |-> <<"mistralai", "/", "Mixtral-8x7B-Instruct-v0.1">>,
     local |-> <<"llama3">>]

\* AIProviders.getDefaultEndpoints()
InlinedDefaultEndpoints ==
    [local |-> <<"http", ":", "/", "/", "localhost", ":", "11434", "/",
                 "api", "/", "chat">>]

\* The state of one call of the copy: where it stands, the requests it has
\* issued, how its adapter ended.
Stands(at, requests, ended) == [pc |-> at, sent |-> requests, inner |-> ended]

\* error.name === 'TypeError' && error.message.includes('CORS')
InlinedCors(ended) ==
    /\ ended.tag = "throw"
    /\ ended.error.name = "TypeError"
    /\ \E i \in DOMAIN ended.error.message : ended.error.message[i] = "CORS"

\* The throw of `if (!response.ok)` in the two remote adapters.
InlinedNotOk(net, fallback) ==
    IF net.body.kind = "null"
    THEN Throw(PropertyCrash("null (reading 'error')"))
    ELSE IF /\ net.body.kind # "unparseable"
            /\ Has(net.body.error)
            /\ Truthy(Get(net.body.error).message)
    THEN Throw(Err("Error", Get(Get(net.body.error).message)))
    ELSE Throw(Err("Error", fallback))

\* An adapter of the copy, from its try block (the fetch of request settled
\* with nets[1]) on; the catch block retries through the proxy when
\* mayRetry, and salvage is the inner try block's end for a 2xx proxy body.
InlinedAdapter(request, nets, Try(_), mayRetry, Inner(_), corsError) ==
    IF nets = <<>> THEN Stands("primary", <<request>>, Pending)
    ELSE LET first == IF nets[1].kind = "fail" THEN Throw(nets[1].error)
                      ELSE Try(nets[1])
             proxy == Request(InlinedWithCors(request.url), request.headers,
                              request.body)
         IN  IF ~(mayRetry /\ InlinedCors(first))
             THEN Stands("done", <<request>>, first)
             ELSE IF Len(nets) = 1
             THEN Stands("fallback", <<request, proxy>>, Pending)
             ELSE LET tried == IF nets[2].kind = "fail"
                               THEN Throw(nets[2].error)
                               ELSE Inner(nets[2])
                  IN  Stands("done", <<request, proxy>>,
                             IF tried.tag = "throw"
                             THEN Throw(Err("Error", corsError))
                             ELSE tried)

\* data.choices[0].message.content of a 2xx response of the hosted router;
\* checked says whether the `!data.choices || !data.choices[0]` test is made
\* first (the try block makes it, the inner try block does not).
InlinedChoice(net, checked) ==
    LET data == net.body IN
    IF data.kind = "unparseable" THEN Throw(JsonSyntaxError)
    ELSE IF data.kind = "null"
    THEN Throw(PropertyCrash("null (reading 'choices')"))
    ELSE IF ~Has(data.choices)
    THEN IF checked
         THEN Throw(Err("Error", <<"Invalid response format from OpenRouter">>))
         ELSE Throw(PropertyCrash("undefined (reading '0')"))
    ELSE IF Get(data.choices) = <<>>
    THEN IF checked
         THEN Throw(Err("Error", <<"Invalid response format from OpenRouter">>))
         ELSE Throw(PropertyCrash("undefined (reading 'message')"))
    ELSE IF Get(data.choices)[1].null
    THEN IF checked
         THEN Throw(Err("Error", <<"Invalid response format from OpenRouter">>))
         ELSE Throw(PropertyCrash("null (reading 'message')"))
    ELSE IF ~Has(Get(data.choices)[1].message)
    THEN Throw(PropertyCrash("undefined (reading 'content')"))
    ELSE Return(Get(Get(data.choices)[1].message).content)

\* AIProviders.sendOpenRouterChat(model, messages, apiKey)
InlinedOpenRouter(model, messages, apiKey, nets) ==
    IF apiKey = <<>>
    THEN Stands("done", <<>>,
                Throw(Err("Error", <<"OpenRouter API key is required">>)))
    ELSE InlinedAdapter(
            Request(<<"https", ":", "/", "/", "openrouter.ai", "/", "api", "/",
                      "v1", "/", "chat", "/", "completions">>,
                    [ContentType |-> <<"application/json">>,
                     Authorization |-> Some(<<"Bearer ">> \o apiKey),
                     Referer |-> Some(<<"window.location.origin">>),
                     Title |-> Some(<<"AgentForge Lite">>)],
                    [model |-> model, messages |-> messages,
                     temperature |-> "0.7", max_tokens |-> 500]),
            nets,
            LAMBDA net :
                IF ~(net.status >= 200 /\ net.status <= 299)
                THEN InlinedNotOk(net, <<"HTTP", ToString(net.status)>>)
                ELSE InlinedChoice(net, TRUE),
            TRUE,
            LAMBDA net :
                IF ~(net.status >= 200 /\ net.status <= 299)
                THEN Throw(Err("Error", <<"HTTP", ToString(net.status)>>))
                ELSE InlinedChoice(net, FALSE),
            <<"CORS", "error - try enabling browser", "CORS",
              "extension or use different provider">>)

\* messages.map(msg => ...).join('\n') + '\nAssistant:'
RECURSIVE InlinedPrompt(_)
InlinedPrompt(messages) ==
    IF messages = <<>> THEN <<"\n", "Assistant:">>
    ELSE LET msg == messages[1]
             line == IF msg.role = "system" THEN <<"System: ">> \o msg.content
                     ELSE IF msg.role = "user" THEN <<"User: ">> \o msg.content
                     ELSE IF msg.role = "assistant"
                     THEN <<"Assistant: ">> \o msg.content
                     ELSE msg.content
         IN  IF Len(messages) = 1 THEN line \o <<"\n", "Assistant:">>
             ELSE line \o <<"\n">> \o InlinedPrompt(Tail(messages))

\* x?.trim() of an optional string.
InlinedTrim(text) == IF Has(text) THEN Some(Trim(Get(text))) ELSE None

\* The first element's generated_text (data[0]?.generated_text) of a parsed
\* body that is not null.
InlinedFirstText(data) ==
    IF data.kind = "array" /\ Len(data.items) >= 1
    THEN data.items[1].generated_text
    ELSE None

\* AIProviders.sendHuggingFaceChat(model, messages, apiKey)
InlinedHuggingFace(model, messages, apiKey, nets) ==
    InlinedAdapter(
        Request(<<"https", ":", "/", "/", "api-inference.huggingface.co", "/",
                  "models", "/">> \o model,
                [ContentType |-> <<"application/json">>,
                 Authorization |-> IF apiKey # <<>>
                                   THEN Some(<<"Bearer ">> \o apiKey)
                                   ELSE None,
                 Referer |-> None, Title |-> None],
                [inputs |-> InlinedPrompt(messages),
                 parameters |-> [max_new_tokens |-> 500, temperature |-> "0.7",
                                 return_full_text |-> FALSE]]),
        nets,
        LAMBDA net :
            LET data == net.body IN
            IF ~(net.status >= 200 /\ net.status <= 299)
            THEN InlinedNotOk(
                    net,
                    <<"HTTP", ToString(net.status),
                      "- Model may be loading, try again in a moment">>)
            ELSE IF data.kind = "unparseable" THEN Throw(JsonSyntaxError)
            ELSE IF data.kind = "null"
            THEN Throw(PropertyCrash("null (reading 'generated_text')"))
            ELSE IF data.kind = "array" /\ Truthy(InlinedFirstText(data))
            THEN Return(InlinedTrim(InlinedFirstText(data)))
            ELSE IF Truthy(data.generated_text)
            THEN Return(InlinedTrim(data.generated_text))
            ELSE Throw(Err("Error",
                           <<"Invalid response format from HuggingFace">>)),
        TRUE,
        LAMBDA net :
            LET data == net.body IN
            IF ~(net.status >= 200 /\ net.status <= 299)
            THEN Throw(Err("Error", <<"HTTP", ToString(net.status)>>))
            ELSE IF data.kind = "unparseable" THEN Throw(JsonSyntaxError)
            ELSE IF data.kind = "null"
            THEN Throw(PropertyCrash("null (reading '0')"))
            ELSE IF Truthy(InlinedTrim(InlinedFirstText(data)))
            THEN Return(InlinedTrim(InlinedFirstText(data)))
            ELSE IF Truthy(InlinedTrim(data.generated_text))
            THEN Return(InlinedTrim(data.generated_text))
            ELSE Return(Some(<<"No response generated">>)),
        <<"CORS", "error - HuggingFace may require API key",
          "or try different model">>)

\* AIProviders.sendLocalChat(model, messages, endpoint)
InlinedLocal(model, messages, endpoint, nets) ==
    LET target == IF endpoint = <<>> THEN InlinedDefaultEndpoints.local
                  ELSE endpoint
        run == InlinedAdapter(
                  Request(target,
                          [ContentType |-> <<"application/json">>,
                           Authorization |-> None, Referer |-> None,
                           Title |-> None],
                          [model |-> model, messages |-> messages,
                           stream |-> FALSE,
                           options |-> [temperature |-> "0.7",
                                        num_predict |-> 500]]),
                  nets,
                  LAMBDA net :
                      LET data == net.body IN
                      IF ~(net.status >= 200 /\ net.status <= 299)
                      THEN Throw(Err("Error",
                                     <<"Ollama server error: HTTP",
                                       ToString(net.status),
                                       ". Make sure Ollama is running and model '">>
                                         \o model \o <<"' is installed.">>))
                      ELSE IF data.kind = "unparseable"
                      THEN Throw(JsonSyntaxError)
                      ELSE IF data.kind = "null"
                      THEN Throw(PropertyCrash("null (reading 'message')"))
                      ELSE IF /\ Has(data.message)
                              /\ Truthy(Get(data.message).content)
                      THEN Return(InlinedTrim(Get(data.message).content))
                      ELSE Throw(Err("Error",
                                     <<"Invalid response format from Ollama">>)),
                  FALSE,
                  LAMBDA net : Pending,
                  <<>>)
        unreachable ==
            /\ run.inner.tag = "throw"
            /\ run.inner.error.name = "TypeError"
            /\ \E i \in DOMAIN run.inner.error.message :
                  run.inner.error.message[i] \in {"Failed to fetch", "CORS"}
    IN  IF unreachable
        THEN [run EXCEPT
                !.inner =
                    Throw(Err("Error",
                              <<"Cannot connect to Ollama server. Make sure Ollama is running on the specified endpoint and",
                                "CORS", "is enabled.">>))]
        ELSE run

\* AIProviders.sendChat(provider, model, messages, apiKey = '',
\* localEndpoint = ''), after the network outcomes nets: where the call
\* stands, the requests it has issued, how its adapter ended and how the call
\* itself has settled.
InlinedSendChat(provider, model, messages, apiKey, localEndpoint, nets) ==
    LET key == IF Has(apiKey) THEN Get(apiKey) ELSE <<>>
        endpoint == IF Has(localEndpoint) THEN Get(localEndpoint) ELSE <<>>
        run == CASE provider = "openrouter" ->
                       InlinedOpenRouter(model, messages, key, nets)
                 [] provider = "huggingface" ->
                       InlinedHuggingFace(model, messages, key, nets)
                 [] provider = "local" ->
                       InlinedLocal(model, messages, endpoint, nets)
                 [] OTHER ->
                       Stands("done", <<>>,
                              Throw(Err("Error", <<"Unsupported provider: ",
                                                   provider>>)))
    IN  [pc |-> run.pc, sent |-> run.sent, inner |-> run.inner,
         result |-> IF run.inner.tag = "throw"
                    THEN Throw(Err("Error",
                                   <<"AI request failed: ">>
                                       \o run.inner.error.message))
                    ELSE run.inner]

\* The copy called with the arguments a of a call.
InlinedRun(a, nets) ==
    InlinedSendChat(a.provider, a.model, a.messages, a.apiKey,
                    a.localEndpoint, nets)

\* C24: the inlined copy AIProviders.sendChat and the standalone sendChat are
\* equivalent: called with the arguments of any call of the standalone
\* gateway and given the network outcomes that call has received, the copy
\* stands where the call stands, has issued the same requests in the same
\* order, and has ended with the same reply or the same error.
C24_CopiesEquivalent ==
    \A c \in Calls :
        pc[c] # "idle" =>
            LET copy == InlinedRun(args[c], recv[c]) IN
            /\ copy.pc = pc[c]
            /\ copy.sent = sent[c]
            /\ copy.inner = inner[c]
            /\ copy.result = result[c]

C24_Witness ==
    \E c \in Calls :
        /\ pc[c] = "done"
        /\ args[c].provider = "huggingface"
        /\ Len(recv[c]) = 2
        /\ InlinedRun(args[c], recv[c]).sent = sent[c]
        /\ Len(InlinedRun(args[c], recv[c]).sent) = 2
        /\ InlinedRun(args[c], recv[c]).result = result[c]
        /\ result[c] = Return(Some(<<"No response generated">>))

(* ================== the chat of the UI controller ===================== *)

\* An entry of this.chatHistory (the timestamp is left out).
Entry(content, sender) == [content |-> content, sender |-> sender]

\* The currentAgent fields the chat handlers read.
Agent(systemPrompt, personality, responseStyle) ==
    [systemPrompt |-> systemPrompt, personality |-> personality,
     responseStyle |-> responseStyle]

\* String.prototype.toLowerCase on one token.
LowerToken(t) ==
    CASE t = "Hi" -> "hi"
      [] t = "Bye" -> "bye"
      [] OTHER -> t

\* String.prototype.toLowerCase.
ToLowerCase(text) == [i \in DOMAIN text |-> LowerToken(text[i])]

\* MOCK_RESPONSES[personality]?.[style] || "I'm here to help!", for the
\* personalities and styles of Agents.
MockFor(personality, style) ==
    IF personality = "professional" /\ style = "helpful"
    THEN "I'm here to assist you with professional and helpful guidance. How may I help you today?"
    ELSE IF personality = "friendly" /\ style = "helpful"
    THEN "Hi there! I'm excited to help you out. What can I do for you today?"
    ELSE "I'm here to help!"

\* The texts generateMockResponse(userMessage) may return: without an agent
\* the one text, with an agent any of responses[0..3], drawn by Math.random.
MockResponses(currentAgent, userMessage) ==
    IF ~Has(currentAgent) THEN {<<"I'm not properly configured yet.">>}
    ELSE LET personality == Get(currentAgent).personality
             style == Get(currentAgent).responseStyle
         IN  {<<MockFor(personality, style)>>,
              <<"As configured in my system prompt, I understand you're asking about \"">>
                  \o ToLowerCase(userMessage)
                  \o <<"\". Let me help with that!">>,
              <<"That's an interesting question! Given my ", style,
                " response style, I think this is worth exploring further.">>,
              <<"I'm designed to be ", personality, " and ", style,
                ". Regarding \"">> \o userMessage
                  \o <<"\", I would suggest we look at this from multiple angles.">>}

\* addMessage(content, sender) on history: without the chat container it
\* returns before the push.
AddMessage(history, content, sender, elements) ==
    IF "chat-messages" \notin elements THEN history
    ELSE Append(history, Entry(content, sender))

\* Faulty variant of SliceLast: the first n elements are taken.
SliceFirst(list, n) ==
    IF Len(list) <= n THEN list ELSE SubSeq(list, 1, n)

\* Array.prototype.slice(-n)
SliceLast(list, n) ==
    IF Len(list) <= n THEN list ELSE SubSeq(list, Len(list) - n + 1, Len(list))

\* Faulty variant of BuildMessages: the entry of the message being sent is
\* left out of the recent history.
BuildMessagesOnce(currentAgent, history, userMessage) ==
    LET earlier == SubSeq(history, 1, Len(history) - 1)
        recentHistory == IF Len(earlier) <= 6 THEN earlier
                         ELSE SubSeq(earlier, Len(earlier) - 5, Len(earlier))
    IN  <<Msg("system", currentAgent.systemPrompt)>>
            \o [i \in DOMAIN recentHistory |->
                  Msg(IF recentHistory[i].sender = "user" THEN "user"
                      ELSE "assistant",
                      recentHistory[i].content)]
            \o <<Msg("user", userMessage)>>

\* The messages generateAIResponse(userMessage) builds: the system prompt,
\* the recent history, the current user message.
BuildMessages(currentAgent, history, userMessage) ==
    LET recentHistory == SliceLast(history, 6) IN
    <<Msg("system", currentAgent.systemPrompt)>>
        \o [i \in DOMAIN recentHistory |->
              Msg(IF recentHistory[i].sender = "user" THEN "user"
                  ELSE "assistant",
                  recentHistory[i].content)]
        \o <<Msg("user", userMessage)>>

\* The reply as addMessage gets it: the string, undefined being kept as the
\* text the page shows for it.
ReplyText(value) == IF Has(value) THEN Get(value) ELSE <<"undefined">>

\* The arguments generateAIResponse passes to AIProviders.sendChat.
SettingsArgs(config, messages) ==
    [provider |-> IF Has(config.provider) /\ Get(config.provider) # <<>>
                  THEN Get(config.provider)[1] ELSE "",
     model |-> IF Has(config.model) THEN Get(config.model) ELSE <<>>,
     messages |-> messages,
     apiKey |-> config.apiKey,
     localEndpoint |-> config.localEndpoint]

\* hideTypingIndicator(): without the indicator element nothing changes.
HideTyping == IF "typing-indicator" \in page THEN FALSE ELSE typing

\* Faulty variant of Resume: a failure of generateAIResponse is not caught,
\* and no fallback is added to the chat.
ResumePropagating(ended, message, history) ==
    /\ typing' = HideTyping
    /\ IF ended.tag = "return"
       THEN chatHistory' =
               AddMessage(history, ReplyText(ended.value), "ai", page)
       ELSE chatHistory' = history

\* The rest of sendMessage once generateAIResponse(message) has settled with
\* ended, resumed with the chat history as history: the typing indicator is
\* hidden and the reply, or on a failure a mock text marked as fallback, is
\* added to the chat.
Resume(ended, message, history) ==
    /\ typing' = HideTyping
    /\ IF ended.tag = "return"
       THEN chatHistory' =
               AddMessage(history, ReplyText(ended.value), "ai", page)
       ELSE \E fallback \in MockResponses(agent, message) :
               chatHistory' =
                  AddMessage(history, <<"[Fallback Response] ">> \o fallback,
                             "ai", page)

\* sendMessage(), with the text value in the message input, up to its await
\* of the network or, when nothing is awaited, to its end.
SendMessage(c, values) ==
    /\ turn[c].pc = "idle"
    /\ pc[c] = "idle"
    /\ \E value \in values :
          LET message == Trim(value)
              history == AddMessage(chatHistory, message, "user", page)
              shown == IF "typing-indicator" \in page THEN TRUE ELSE typing
          IN  IF "message-input" \notin page \/ message = <<>>
              THEN UNCHANGED vars
              ELSE IF ~Has(agent)
              THEN /\ Resume(Throw(Err("Error",
                                       <<"Agent not properly configured">>)),
                             message, history)
                   /\ UNCHANGED <<gateway, storage, settings, agent, turn, page>>
              ELSE LET raw == SettingsArgs(
                                 settings,
                                 BuildMessages(Get(agent), history, message))
                       run == InlinedRun(raw, <<>>)
                   IN  /\ args' = [args EXCEPT ![c] = raw]
                       /\ sent' = [sent EXCEPT ![c] = run.sent]
                       /\ inflight' =
                             inflight \cup {<<c, i>> : i \in DOMAIN run.sent}
                       /\ UNCHANGED <<recv, storage, settings, agent, page>>
                       /\ IF run.pc = "done"
                          THEN /\ pc' = [pc EXCEPT ![c] = "done"]
                               /\ inner' = [inner EXCEPT ![c] = run.inner]
                               /\ result' = [result EXCEPT ![c] = run.result]
                               /\ Resume(run.result, message, history)
                               /\ UNCHANGED turn
                          ELSE /\ pc' = [pc EXCEPT ![c] = run.pc]
                               /\ UNCHANGED <<inner, result>>
                               /\ chatHistory' = history
                               /\ typing' = shown
                               /\ turn' = [turn EXCEPT
                                             ![c] = [pc |-> "awaiting",
                                                     message |-> message]]

\* A fetch of the call sendMessage awaits settles with an outcome of the
\* given set: the call goes on to its proxy fetch, or it settles and
\* sendMessage runs to its end.
ReplyArrives(c, outcomes) ==
    /\ turn[c].pc = "awaiting"
    /\ pc[c] \in {"primary", "fallback"}
    /\ \E net \in outcomes :
          LET run == InlinedRun(args[c], Append(recv[c], net)) IN
          /\ recv' = [recv EXCEPT ![c] = Append(@, net)]
          /\ sent' = [sent EXCEPT ![c] = run.sent]
          /\ pc' = [pc EXCEPT ![c] = run.pc]
          /\ IF run.pc = "fallback"
             THEN /\ inflight' = (inflight \ {<<c, 1>>}) \cup {<<c, 2>>}
                  /\ UNCHANGED <<inner, result, ui>>
             ELSE /\ inflight' = inflight \ {<<c, Len(sent[c])>>}
                  /\ inner' = [inner EXCEPT ![c] = run.inner]
                  /\ result' = [result EXCEPT ![c] = run.result]
                  /\ Resume(run.result, turn[c].message, chatHistory)
                  /\ turn' = [turn EXCEPT ![c] = NoTurn]
                  /\ UNCHANGED <<storage, settings, agent, page>>
    /\ UNCHANGED args

\* Faulty variant of ClearChat: the sends that await a reply are dropped
\* with the history.
ClearChatCancelling ==
    /\ chatHistory' = IF "chat-messages" \in page THEN <<>> ELSE chatHistory
    /\ turn' = [c \in Calls |-> NoTurn]
    /\ UNCHANGED <<gateway, storage, settings, agent, typing, page>>

\* clearChat()
ClearChat ==
    /\ chatHistory' = IF "chat-messages" \in page THEN <<>> ELSE chatHistory
    /\ UNCHANGED <<gateway, storage, settings, agent, typing, turn, page>>

\* The agents a template gives.
Agents ==
    {Agent(<<"You are a helpful assistant.">>, "professional", "helpful")}

\* selectTemplate(template)
SelectTemplate ==
    /\ \E template \in Agents : agent' = Some(template)
    /\ UNCHANGED <<gateway, storage, settings, chatHistory, typing, turn, page>>

(* ============================== settings ============================== *)

SettingsKeys == <<"provider", "model", "apiKey", "localEndpoint">>

\* A settings object: each field a string, or undefined.
Config(provider, model, apiKey, localEndpoint) ==
    [provider |-> provider, model |-> model, apiKey |-> apiKey,
     localEndpoint |-> localEndpoint]

\* The characters JSON.stringify escapes in a string, one token each.
JsonEscapeToken(t) ==
    CASE t = "\"" -> "\\\""
      [] t = "\\" -> "\\\\"
      [] OTHER -> t

JsonUnescapeToken(t) ==
    CASE t = "\\\"" -> "\""
      [] t = "\\\\" -> "\\"
      [] OTHER -> t

\* JSON.stringify of a string: quoted, its characters escaped.
JsonString(text) ==
    <<"\"">> \o [i \in DOMAIN text |-> JsonEscapeToken(text[i])] \o <<"\"">>

\* JSON.parse of a string literal.
JsonParseString(json) ==
    [i \in 1..(Len(json) - 2) |-> JsonUnescapeToken(json[i + 1])]

\* The members JSON.stringify(this.settings) writes: one per field that is
\* not undefined, in the order of the fields.
RECURSIVE StringifyFrom(_, _)
StringifyFrom(config, i) ==
    IF i > Len(SettingsKeys) THEN <<>>
    ELSE (IF Has(config[SettingsKeys[i]])
          THEN <<[key |-> SettingsKeys[i],
                  value |-> JsonString(Get(config[SettingsKeys[i]]))]>>
          ELSE <<>>) \o StringifyFrom(config, i + 1)

\* JSON.stringify(this.settings)
Stringify(config) == StringifyFrom(config, 1)

\* The field key of JSON.parse(stored): undefined when stored has no such
\* member.
ParsedField(stored, key) ==
    IF \E i \in DOMAIN stored : stored[i].key = key
    THEN LET i == CHOOSE i \in DOMAIN stored : stored[i].key = key
         IN  Some(JsonParseString(stored[i].value))
    ELSE None

\* Faulty variant of LoadSettings: the defaults are spread last and override
\* what was stored.
LoadSettingsDefaultsLast(stored) == DefaultSettings

\* loadSettings(): stored ? { ...defaults, ...JSON.parse(stored) } : defaults
LoadSettings(stored) ==
    IF ~Has(stored) THEN DefaultSettings
    ELSE [key \in DOMAIN DefaultSettings |->
            IF Has(ParsedField(Get(stored), key))
            THEN ParsedField(Get(stored), key)
            ELSE DefaultSettings[key]]

\* saveSettings()
SaveSettings(config) == Some(Stringify(config))

\* What the settings form may hold: a provider of the select, a model or
\* nothing, a key or nothing, an endpoint or nothing.
FormProviders == {<<"openrouter">>, <<"huggingface">>, <<"local">>}

FormModels == {<<>>, <<"llama3">>}

FormKeys == {<<>>, <<"sk-1">>, <<"k", "\"", "\\">>}

FormEndpoints ==
    {<<>>, <<"http", ":", "/", "/", "10.0.0.5", ":", "8080", "/", "chat">>}

\* saveSettingsFromModal(): the form is read into this.settings, an empty
\* model or endpoint replaced by the default, and the settings are saved.
SaveSettingsFromModal ==
    /\ \E provider \in FormProviders, model \in FormModels, apiKey \in FormKeys,
          localEndpoint \in FormEndpoints :
          LET name == provider[1]
              config ==
                 Config(Some(provider),
                        IF model # <<>> THEN Some(model)
                        ELSE IF name \in DOMAIN InlinedDefaultModels
                        THEN Some(InlinedDefaultModels[name])
                        ELSE None,
                        Some(apiKey),
                        Some(IF localEndpoint # <<>> THEN localEndpoint
                             ELSE InlinedDefaultEndpoints.local))
          IN  /\ settings' = config
              /\ storage' = SaveSettings(config)
    /\ UNCHANGED <<gateway, agent, chatHistory, typing, turn, page>>

\* The aiSettings an imported agent file may carry: any of the fields.
ImportedSettings ==
    {Config(Some(<<"azure">>), None, None, None),
     Config(None, Some(<<>>), None, Some(<<>>)),
     Config(Some(<<"local">>), Some(<<"llama3">>), None, None)}

\* The import of an agent file with aiSettings: they are spread over
\* this.settings and the settings are saved.
ImportSettings ==
    /\ \E aiSettings \in ImportedSettings :
          LET config == [key \in DOMAIN settings |->
                           IF Has(aiSettings[key]) THEN aiSettings[key]
                           ELSE settings[key]]
          IN  /\ settings' = config
              /\ storage' = SaveSettings(config)
    /\ UNCHANGED <<gateway, agent, chatHistory, typing, turn, page>>

\* The page is loaded again: new AgentForgeApp(), with what localStorage
\* holds; the calls of the page before are gone.
Reload ==
    /\ settings' = LoadSettings(storage)
    /\ agent' = None
    /\ chatHistory' = <<>>
    /\ typing' = FALSE
    /\ turn' = [c \in Calls |-> NoTurn]
    /\ pc' = [c \in Calls |-> "idle"]
    /\ args' = [c \in Calls |-> NoCall]
    /\ sent' = [c \in Calls |-> <<>>]
    /\ recv' = [c \in Calls |-> <<>>]
    /\ inflight' = {}
    /\ inner' = [c \in Calls |-> Pending]
    /\ result' = [c \in Calls |-> Pending]
    /\ UNCHANGED <<storage, page>>

\* What a fetch of a chat call may settle with in the settings run.
SettingsOutcomes ==
    {Failure(Err("TypeError", <<"Blocked by", "CORS", "policy">>)),
     Response(200, ObjectBody(None, Some(<<"hi">>), None, None))}

\* The first message of a chat is sent, with the settings as they are.
SettingsSend(c) ==
    /\ chatHistory = <<>>
    /\ \A d \in Calls : pc[d] = "idle"
    /\ SendMessage(c, {<<"Hi">>})

SettingsReply(c) == ReplyArrives(c, SettingsOutcomes)

SettingsForget(c) == Forget(c) /\ UNCHANGED ui

\* No chat has begun on the page.
Quiet ==
    /\ chatHistory = <<>>
    /\ \A c \in Calls : pc[c] = "idle" /\ turn[c].pc = "idle"

\* In the settings run the settings are changed and the agent chosen
\* before the chat begins.
NextSettings ==
    \/ Quiet /\ SaveSettingsFromModal
    \/ Quiet /\ ImportSettings
    \/ Quiet /\ SelectTemplate
    \/ Reload
    \/ \E c \in Calls :
          \/ SettingsSend(c)
          \/ SettingsReply(c)
          \/ SettingsForget(c)

SpecSettings == Init /\ [][NextSettings]_vars

\* The requests sendChat issues at once for a configuration and a message
\* list.
RequestsFor(config, messages) ==
    InlinedRun(SettingsArgs(config, messages), <<>>).sent

\* Saving the configuration and loading it again gives a configuration for
\* which sendChat builds the same requests.
RoundTrip(config) ==
    \A messages \in MessageLists :
        RequestsFor(LoadSettings(SaveSettings(config)), messages)
            = RequestsFor(config, messages)

\* C22: whenever the settings have been saved (from the settings form or
\* by an import), saveSettings followed by loadSettings yields a
\* configuration for which sendChat builds the same requests (target,
\* headers, body) as for the saved one; after the page is loaded again the
\* settings are the loaded ones.
C22_SettingsRoundTrip ==
    Has(storage) =>
        \/ /\ storage = SaveSettings(settings)
           /\ RoundTrip(settings)
        \/ settings = LoadSettings(storage)

\* Settings with a key that holds a quote and a backslash have been saved,
\* the page loaded again, and a request built from the loaded settings sent.
C22_Witness ==
    \E c \in Calls :
        /\ Has(storage)
        /\ settings = LoadSettings(storage)
        /\ settings.apiKey = Some(<<"k", "\"", "\\">>)
        /\ settings.provider = Some(<<"huggingface">>)
        /\ pc[c] = "primary"
        /\ sent[c][1].headers.Authorization =
              Some(<<"Bearer ", "k", "\"", "\\">>)

(* ============================ no timeout ============================== *)

\* The concurrent calls on a network where every fetch settles: a fetch that
\* is outstanding is sooner or later answered or fails.
CompleteOutcomes ==
    {Failure(Err("TypeError", <<"Blocked by", "CORS", "policy">>)),
     Response(200, ObjectBody(None, Some(<<"hi">>), None, None)),
     Response(500, EmptyObject)}

StartComplete(c) ==
    /\ Begin(c, {"openrouter", "local"}, {<<"llama3">>}, {<<>>},
             {Some(<<"sk-1">>)}, {None})
    /\ UNCHANGED ui

PrimaryComplete(c) == PrimarySettles(c, CompleteOutcomes) /\ UNCHANGED ui

FallbackComplete(c) == FallbackSettles(c, CompleteOutcomes) /\ UNCHANGED ui

ForgetComplete(c) == Forget(c) /\ UNCHANGED ui

NextComplete ==
    \E c \in Calls :
        \/ StartComplete(c)
        \/ PrimaryComplete(c)
        \/ FallbackComplete(c)
        \/ ForgetComplete(c)

SpecComplete ==
    /\ Init
    /\ [][NextComplete]_vars
    /\ \A c \in Calls :
          WF_vars(PrimaryComplete(c)) /\ WF_vars(FallbackComplete(c))

\* The call awaits a fetch.
Awaiting(c) == pc[c] \in {"primary", "fallback"}

\* The fetch the call awaits: the last one it issued.
Outstanding(c) == <<c, Len(sent[c])>>

\* A call that awaits a fetch moves on only in the step in which that fetch
\* settles.
OnlyOnCompletion ==
    \A c \in Calls :
        Awaiting(c) /\ pc'[c] # pc[c] =>
            /\ Outstanding(c) \in inflight
            /\ Outstanding(c) \notin inflight'
            /\ Len(recv'[c]) = Len(recv[c]) + 1

\* A call that awaits a fetch has not resolved; a call that has resolved has
\* had an outcome for every fetch it issued.
ResolvedAfterRequests ==
    \A c \in Calls :
        /\ Awaiting(c) => result[c] = Pending /\ Outstanding(c) \in inflight
        /\ result[c] # Pending =>
              /\ Len(recv[c]) = Len(sent[c])
              /\ \A i \in DOMAIN sent[c] : <<c, i>> \notin inflight

\* C23: there is no timeout. A sendChat call that awaits a fetch resolves
\* only in the step in which that fetch settles, so while the fetch does not
\* settle the call stays pending; a resolved call has had an outcome for
\* every fetch it issued; and when every fetch settles, every call that
\* awaits one resolves.
C23_NoTimeout ==
    /\ [][OnlyOnCompletion]_vars
    /\ []ResolvedAfterRequests
    /\ \A c \in Calls : Awaiting(c) ~> (pc[c] = "done")

\* A call has resolved after both its fetches settled while another call
\* still awaits its proxy fetch.
C23_Witness ==
    \E c, d \in Calls :
        /\ pc[c] = "done"
        /\ Len(recv[c]) = 2
        /\ result[c] # Pending
        /\ pc[d] = "fallback"
        /\ result[d] = Pending

(* ===================== the credential and the proxy =================== *)

\* The host a URL names.
HostOf(url) == url[5]

\* C25: when the proxy request is issued for a call made with a non-empty
\* apiKey (always so for 'openrouter'), it carries the header
\* 'Authorization: Bearer <apiKey>' and the headers and the body of the
\* primary request, and goes to the proxy's host, which is not the host of
\* the provider's endpoint.
C25_KeySentToProxy ==
    \A c \in Calls :
        Len(sent[c]) = 2 =>
            /\ args[c].provider = "openrouter" => ~NoApiKey(c)
            /\ ~NoApiKey(c) =>
                  /\ sent[c][2].headers.Authorization =
                        Some(Bearer(Get(args[c].apiKey)))
                  /\ sent[c][2].headers = sent[c][1].headers
                  /\ sent[c][2].body = sent[c][1].body
                  /\ ProxyFor(sent[c][2].url, sent[c][1].url)
                  /\ HostOf(sent[c][2].url) = "api.allorigins.win"
                  /\ HostOf(sent[c][2].url) # HostOf(sent[c][1].url)

\* A 'huggingface' call made with a key has sent that key to the proxy and
\* had the proxy's answer.
C25_Witness ==
    \E c \in Calls :
        /\ pc[c] = "done"
        /\ args[c].provider = "huggingface"
        /\ args[c].apiKey = Some(<<"sk-1">>)
        /\ Len(sent[c]) = 2
        /\ HostOf(sent[c][2].url) = "api.allorigins.win"
        /\ sent[c][2].headers.Authorization = Some(<<"Bearer ", "sk-1">>)
        /\ recv[c][2].kind = "resp"

(* ============================= the chat run =========================== *)

\* The most entries the chat history holds when a message is sent.
MaxHistory == 7

\* What localStorage holds when the chat page is loaded: settings saved for
\* the inference host, with no key.
ChatStored ==
    SaveSettings(Config(Some(<<"huggingface">>), Some(<<"llama3">>),
                        Some(<<>>), Some(DefaultLocalEndpoint)))

\* new AgentForgeApp() on the app's page with those settings stored.
ChatInit ==
    /\ storage = ChatStored
    /\ settings = LoadSettings(ChatStored)
    /\ agent = None
    /\ chatHistory = <<>>
    /\ typing = FALSE
    /\ turn = [c \in Calls |-> NoTurn]
    /\ page = PageElements
    /\ pc = [c \in Calls |-> "idle"]
    /\ args = [c \in Calls |-> NoCall]
    /\ sent = [c \in Calls |-> <<>>]
    /\ recv = [c \in Calls |-> <<>>]
    /\ inflight = {}
    /\ inner = [c \in Calls |-> Pending]
    /\ result = [c \in Calls |-> Pending]

\* What the message input may hold when the send button is clicked.
ChatValues == {<<WS, "Hi", WS>>, <<WS>>}

\* What a fetch of a chat call may settle with.
ChatOutcomes ==
    {Failure(Err("TypeError", <<"Blocked by", "CORS", "policy">>)),
     Response(200, ObjectBody(None, Some(<<"hello">>), None, None))}

\* The send button is clicked, by a user who waits for the reply before
\* sending the next message.
ChatSend(c) ==
    /\ Len(chatHistory) < MaxHistory
    /\ \A d \in Calls : pc[d] = "idle" /\ turn[d].pc = "idle"
    /\ SendMessage(c, ChatValues)

ChatReply(c) == ReplyArrives(c, ChatOutcomes)

ChatForget(c) == Forget(c) /\ UNCHANGED ui

NextChat ==
    \/ SelectTemplate
    \/ ClearChat
    \/ \E c \in Calls :
          \/ ChatSend(c)
          \/ ChatReply(c)
          \/ ChatForget(c)

SpecChat == ChatInit /\ [][NextChat]_vars

(* --------------------- the messages of a chat turn -------------------- *)

\* sendMessage of slot c gets to its await of the network in this step.
SendStep(c) == turn[c].pc = "idle" /\ turn'[c].pc = "awaiting"

\* sendMessage of slot c runs from its await to its end in this step.
SettleStep(c) == turn[c].pc = "awaiting" /\ turn'[c].pc = "idle"

Min(a, b) == IF a <= b THEN a ELSE b

\* list is what generateAIResponse is to pass for the agent, the chat history
\* at the call and the text: the system prompt, the last min(6, length)
\* entries of the history in their order, the text as a user message.
IsContextOf(list, currentAgent, history, text) ==
    LET kept == Min(6, Len(history)) IN
    /\ Len(list) = kept + 2
    /\ list[1] = Msg("system", currentAgent.systemPrompt)
    /\ \A i \in 1..kept :
          LET entry == history[Len(history) - kept + i] IN
          /\ list[i + 1].content = entry.content
          /\ list[i + 1].role =
                IF entry.sender = "user" THEN "user" ELSE "assistant"
    /\ list[kept + 2] = Msg("user", text)

\* C26: in every send, the message list generateAIResponse passes to sendChat
\* is the system message with the agent's system prompt, then the last
\* min(6, length) entries of the chat history as it is at the call, in
\* order, sender 'user' as role user and any other sender as role assistant,
\* then a user message with the current text; it has at most 8 elements and
\* its first element is the system message.
C26_ContextWindow ==
    [][\A c \in Calls :
          SendStep(c) =>
              /\ Has(agent)
              /\ IsContextOf(args'[c].messages, Get(agent), chatHistory',
                             turn'[c].message)
              /\ Len(args'[c].messages) <= 8
              /\ args'[c].messages[1].role = "system"]_vars

\* A message has been sent with seven entries in the chat history, the
\* oldest of which is not in the list of eight that was passed.
C26_Witness ==
    \E c \in Calls :
        /\ turn[c].pc = "awaiting"
        /\ Len(chatHistory) = 7
        /\ chatHistory[1].sender = "user"
        /\ Len(args[c].messages) = 8
        /\ args[c].messages[2].role = "assistant"
        /\ args[c].messages[2].content = chatHistory[2].content

\* C27: the user's message is in the chat history before generateAIResponse
\* is called, so in every send the last two elements of the list passed to
\* sendChat are both user messages with the current text.
C27_CurrentTurnTwice ==
    \A c \in Calls :
        turn[c].pc = "awaiting" =>
            LET list == args[c].messages IN
            /\ Len(list) >= 3
            /\ list[Len(list)] = Msg("user", turn[c].message)
            /\ list[Len(list) - 1] = Msg("user", turn[c].message)

\* The first message of a chat has been sent: the list is the system prompt
\* and the text twice.
C27_Witness ==
    \E c \in Calls :
        /\ turn[c].pc = "awaiting"
        /\ pc[c] = "primary"
        /\ Len(args[c].messages) = 3
        /\ args[c].messages[2] = Msg("user", <<"Hi">>)
        /\ args[c].messages[3] = Msg("user", <<"Hi">>)
        /\ sent[c][1].body.inputs # <<>>

\* What the message input holds when it holds nothing but white space.
BlankValues == {<<>>, <<WS>>, <<WS, WS>>}

\* The content of a fallback entry.
IsFallback(content) ==
    /\ Len(content) > 1
    /\ content[1] = "[Fallback Response] "

\* chatHistory' is chatHistory with the entries of added after it.
Appended(added) == chatHistory' = chatHistory \o added

\* What one step of the chat does to the chat history.
OneUserOneAi ==
    /\ \A c \in Calls :
          /\ SendStep(c) =>
                /\ turn'[c].message # <<>>
                /\ Appended(<<Entry(turn'[c].message, "user")>>)
                /\ Len(sent'[c]) = 1
          /\ SettleStep(c) =>
                /\ result'[c] # Pending
                /\ \E content \in {chatHistory'[Len(chatHistory')].content} :
                      /\ Appended(<<Entry(content, "ai")>>)
                      /\ IF result'[c].tag = "return"
                         THEN Some(content) = result'[c].value
                         ELSE IsFallback(content)
          /\ SendMessage(c, BlankValues) => UNCHANGED vars
    /\ turn' = turn /\ chatHistory' # chatHistory =>
          \/ chatHistory' = <<>>
          \/ /\ ~Has(agent)
             /\ sent' = sent
             /\ inflight' = inflight
             /\ Len(chatHistory') = Len(chatHistory) + 2
             /\ \E user \in {chatHistory'[Len(chatHistory) + 1]},
                   ai \in {chatHistory'[Len(chatHistory) + 2]} :
                   /\ Appended(<<user, ai>>)
                   /\ user.sender = "user"
                   /\ Trim(user.content) = user.content
                   /\ user.content # <<>>
                   /\ ai.sender = "ai"
                   /\ IsFallback(ai.content)

\* C28: sendMessage never propagates a failure. A send of a non-empty
\* trimmed input appends exactly one 'user' entry and, when the AI call has
\* settled, exactly one 'ai' entry: the reply on success, a text that begins
\* with '[Fallback Response] ' on a failure; without a current agent both
\* are appended at once and no request is made. A send of an empty or
\* white-space input changes nothing.
C28_AlwaysAnAnswer == [][OneUserOneAi]_vars

\* Without an agent a message was sent: the chat holds it and the fallback,
\* and no request was made; then a message sent with an agent failed on the
\* network and the chat holds its fallback too.
C28_Witness ==
    /\ Len(chatHistory) = 4
    /\ chatHistory[1] = Entry(<<"Hi">>, "user")
    /\ chatHistory[2] =
          Entry(<<"[Fallback Response] ", "I'm not properly configured yet.">>,
                "ai")
    /\ chatHistory[3] = Entry(<<"Hi">>, "user")
    /\ chatHistory[4].sender = "ai"
    /\ IsFallback(chatHistory[4].content)
    /\ \E c \in Calls :
          /\ pc[c] = "done"
          /\ result[c].tag = "throw"
          /\ Len(recv[c]) = 2

(* ========================== overlapping sends ========================= *)

\* The most entries the chat history holds when a message is sent while
\* another may await its reply.
MaxOverlap == 2

\* What the message input may hold when the send button is clicked.
OverlapValues == {<<"Hi">>, <<"Bye">>}

\* The send button is clicked, whether or not a reply is awaited.
OverlapSend(c) ==
    /\ Len(chatHistory) < MaxOverlap
    /\ SendMessage(c, OverlapValues)

\* What a fetch of one of the overlapping chat calls settles with.
OverlapOutcomes ==
    {Response(200, ObjectBody(None, Some(<<"hello">>), None, None))}

OverlapReply(c) == ReplyArrives(c, OverlapOutcomes)

OverlapForget(c) == Forget(c) /\ UNCHANGED ui

\* No settled call is waiting for its result to be taken: the code that
\* awaits a call runs as soon as the call settles, before any other event
\* is handled.
ResultsTaken == \A c \in Calls : pc[c] # "done"

NextOverlap ==
    \/ ResultsTaken /\ SelectTemplate
    \/ ResultsTaken /\ ClearChat
    \/ \E c \in Calls :
          \/ ResultsTaken /\ OverlapSend(c)
          \/ ResultsTaken /\ OverlapReply(c)
          \/ OverlapForget(c)

SpecOverlap == ChatInit /\ [][NextOverlap]_vars

\* C29: the typing indicator is visible whenever at least one sendMessage
\* call still awaits its reply.
C29_TypingWhileAwaiting ==
    (\E c \in Calls : turn[c].pc = "awaiting") => typing

\* The chat history is cleared in this step.
ClearStep == chatHistory # <<>> /\ chatHistory' = <<>>

\* A step that clears the chat leaves the sends and their requests as they
\* are; a send that settles appends its 'ai' entry to the chat history as it
\* then is.
LateReplyAppended ==
    /\ ClearStep => UNCHANGED <<turn, gateway>>
    /\ \A c \in Calls :
          SettleStep(c) =>
              /\ Len(chatHistory') = Len(chatHistory) + 1
              /\ SubSeq(chatHistory', 1, Len(chatHistory)) = chatHistory
              /\ chatHistory'[Len(chatHistory')].sender = "ai"

\* A send that awaits its reply has its request outstanding, whatever the
\* chat history holds.
StillInFlight ==
    \A c \in Calls :
        turn[c].pc = "awaiting" =>
            /\ pc[c] \in {"primary", "fallback"}
            /\ <<c, Len(sent[c])>> \in inflight

\* C30: clearChat does not cancel a sendMessage in flight: the chat history
\* is emptied, the send and its request stay as they are, and the reply or
\* fallback is appended to the history as it is when it arrives; so the 'ai'
\* entries are appended in the order in which the sends complete.
C30_ClearDoesNotCancel ==
    /\ [][LateReplyAppended]_vars
    /\ []StillInFlight

\* 'Hi' was sent, then 'Bye'; the chat was cleared; the reply to 'Bye' has
\* arrived while 'Hi' is still awaited: the history holds that reply and
\* neither 'user' entry.
C30_Witness ==
    \E c, d \in Calls :
        /\ chatHistory = <<Entry(<<"hello">>, "ai")>>
        /\ turn[c].pc = "idle"
        /\ pc[c] = "done"
        /\ Len(args[c].messages) = 4
        /\ args[c].messages[2].content = <<"Hi">>
        /\ args[c].messages[4].content = <<"Bye">>
        /\ turn[d].pc = "awaiting"
        /\ turn[d].message = <<"Hi">>
        /\ Len(args[d].messages) = 3

====
